---- MODULE Spec2Model ----
(***************************************************************************)
(* Operational transformation core of operational-transformation-go:       *)
(* operation sequences (builder with merging and canonical order), Apply,  *)
(* Invert, Compose, Transform and the JSON wire codec.                     *)
(*                                                                         *)
(* A text is a sequence of Unicode codepoints (charCount = Len).  An       *)
(* OperationSeq is the record [ops, baseLen, targetLen].                   *)
(***************************************************************************)
EXTENDS Integers, Sequences, FiniteSets, TLC

VARIABLES a, b, call, res

vars == <<a, b, call, res>>

(***************************************************************************)
(* Bounds of the model.                                                    *)
(***************************************************************************)
\* largest count passed to one Retain or Delete call
MaxCount == 2
\* longest text passed to one Insert call
MaxInsLen == 1
\* largest baseLen and targetLen of a sequence handled on its own
MaxLen == 3
\* largest baseLen and targetLen of the sequences handled in pairs
MaxPairLen == 2
\* largest baseLen and targetLen of the locally built sequence of a session
MaxFullLen == 1
\* how much longer or shorter than baseLen a text handed to Apply/Invert may be
MaxSkew == 1
\* spare capacity the runtime may give the rune slice of a text
MaxCapSlack == 1
\* most elements of a wire array
MaxWireLen == 2
\* most unit builder calls behind each of three sequences taken together
MaxTripleCalls == 3
\* most builder calls of a recorded call list
MaxRawCalls == 3

\* codepoints of the texts: 'a' (1 byte in UTF-8) and U+00E9 (2 bytes)
Alphabet == {97, 233}

TextsOfLen(n) == [1..n -> Alphabet]
TextsUpTo(n) == UNION {TextsOfLen(k) : k \in 0..n}

Min(x, y) == IF x < y THEN x ELSE y

(***************************************************************************)
(* Operations and sequences.                                               *)
(***************************************************************************)
Retain(n) == [type |-> "Retain", N |-> n]
Delete(n) == [type |-> "Delete", N |-> n]
Insert(t) == [type |-> "Insert", Text |-> t]
\* the nil Operation an exhausted iterator returns
NilOp == [type |-> "nil"]

IsRetain(op) == op.type = "Retain"
IsDelete(op) == op.type = "Delete"
IsInsert(op) == op.type = "Insert"

charCount(s) == Len(s)

NewOperationSeq == [ops |-> <<>>, baseLen |-> 0, targetLen |-> 0]

\* the error values
ErrNil == "nil"
ErrIncompatibleLengths == "incompatible lengths"

(***************************************************************************)
(* The builder: o.Insert(s), o.Delete(n), o.Retain(n); each returns the    *)
(* sequence o after the call.                                              *)
(***************************************************************************)
\* UTF-8 byte length of a text
Utf8Len(s) ==
  LET w(c) == IF c < 128 THEN 1 ELSE IF c < 2048 THEN 2 ELSE IF c < 65536 THEN 3 ELSE 4
      RECURSIVE sum(_)
      sum(i) == IF i = 0 THEN 0 ELSE w(s[i]) + sum(i - 1)
  IN  sum(Len(s))

\* Insert that always appends (no placement before a trailing Delete)
SeqInsert_Append(o, s) ==
  IF s = <<>> THEN o
  ELSE LET n == Len(o.ops)
           tl == o.targetLen + charCount(s)
       IN  IF n > 0 /\ IsInsert(o.ops[n])
           THEN [o EXCEPT !.targetLen = tl,
                          !.ops[n] = Insert(o.ops[n].Text \o s)]
           ELSE [o EXCEPT !.targetLen = tl, !.ops = Append(o.ops, Insert(s))]

\* Insert that puts the new text in front when it merges past a Delete
SeqInsert_MergeFront(o, s) ==
  IF s = <<>> THEN o
  ELSE LET n == Len(o.ops)
           tl == o.targetLen + charCount(s)
       IN  IF n = 0
           THEN [o EXCEPT !.targetLen = tl, !.ops = Append(o.ops, Insert(s))]
           ELSE IF IsInsert(o.ops[n])
           THEN [o EXCEPT !.targetLen = tl,
                          !.ops[n] = Insert(o.ops[n].Text \o s)]
           ELSE IF n >= 2 /\ IsDelete(o.ops[n]) /\ IsInsert(o.ops[n-1])
           THEN [o EXCEPT !.targetLen = tl,
                          !.ops[n-1] = Insert(s \o o.ops[n-1].Text)]
           ELSE IF IsDelete(o.ops[n])
           THEN [o EXCEPT !.targetLen = tl,
                          !.ops = Append([o.ops EXCEPT ![n] = Insert(s)], o.ops[n])]
           ELSE [o EXCEPT !.targetLen = tl, !.ops = Append(o.ops, Insert(s))]

\* Insert that moves the new text in front of a trailing Retain as well
SeqInsert_BeforeRetain(o, s) ==
  IF s = <<>> THEN o
  ELSE LET n == Len(o.ops)
           tl == o.targetLen + charCount(s)
       IN  IF n = 0
           THEN [o EXCEPT !.targetLen = tl, !.ops = Append(o.ops, Insert(s))]
           ELSE IF IsInsert(o.ops[n])
           THEN [o EXCEPT !.targetLen = tl,
                          !.ops[n] = Insert(o.ops[n].Text \o s)]
           ELSE IF n >= 2 /\ IsDelete(o.ops[n]) /\ IsInsert(o.ops[n-1])
           THEN [o EXCEPT !.targetLen = tl,
                          !.ops[n-1] = Insert(o.ops[n-1].Text \o s)]
           ELSE [o EXCEPT !.targetLen = tl,
                          !.ops = Append([o.ops EXCEPT ![n] = Insert(s)], o.ops[n])]

SeqInsert(o, s) ==
  IF s = <<>> THEN o
  ELSE LET n == Len(o.ops)
           tl == o.targetLen + charCount(s)
       IN  IF n = 0
           THEN [o EXCEPT !.targetLen = tl, !.ops = Append(o.ops, Insert(s))]
           ELSE IF IsInsert(o.ops[n])
           THEN [o EXCEPT !.targetLen = tl,
                          !.ops[n] = Insert(o.ops[n].Text \o s)]
           ELSE IF n >= 2 /\ IsDelete(o.ops[n]) /\ IsInsert(o.ops[n-1])
           THEN [o EXCEPT !.targetLen = tl,
                          !.ops[n-1] = Insert(o.ops[n-1].Text \o s)]
           ELSE IF IsDelete(o.ops[n])
           THEN [o EXCEPT !.targetLen = tl,
                          !.ops = Append([o.ops EXCEPT ![n] = Insert(s)], o.ops[n])]
           ELSE [o EXCEPT !.targetLen = tl, !.ops = Append(o.ops, Insert(s))]

\* Delete that never merges into a trailing Delete
SeqDelete_NoMerge(o, n) ==
  IF n = 0 THEN o
  ELSE [o EXCEPT !.baseLen = o.baseLen + n, !.ops = Append(o.ops, Delete(n))]

SeqDelete(o, n) ==
  IF n = 0 THEN o
  ELSE LET k == Len(o.ops)
           bl == o.baseLen + n
       IN  IF k > 0 /\ IsDelete(o.ops[k])
           THEN [o EXCEPT !.baseLen = bl, !.ops[k] = Delete(o.ops[k].N + n)]
           ELSE [o EXCEPT !.baseLen = bl, !.ops = Append(o.ops, Delete(n))]

\* Retain without the zero guard
SeqRetain_KeepZero(o, n) ==
  LET k == Len(o.ops)
      bl == o.baseLen + n
      tl == o.targetLen + n
  IN  IF k > 0 /\ IsRetain(o.ops[k])
      THEN [o EXCEPT !.baseLen = bl, !.targetLen = tl,
                     !.ops[k] = Retain(o.ops[k].N + n)]
      ELSE [o EXCEPT !.baseLen = bl, !.targetLen = tl,
                     !.ops = Append(o.ops, Retain(n))]

\* Retain that forgets to count the retained span in targetLen
SeqRetain_NoTarget(o, n) ==
  IF n = 0 THEN o
  ELSE LET k == Len(o.ops)
           bl == o.baseLen + n
       IN  IF k > 0 /\ IsRetain(o.ops[k])
           THEN [o EXCEPT !.baseLen = bl, !.ops[k] = Retain(o.ops[k].N + n)]
           ELSE [o EXCEPT !.baseLen = bl, !.ops = Append(o.ops, Retain(n))]

SeqRetain(o, n) ==
  IF n = 0 THEN o
  ELSE LET k == Len(o.ops)
           bl == o.baseLen + n
           tl == o.targetLen + n
       IN  IF k > 0 /\ IsRetain(o.ops[k])
           THEN [o EXCEPT !.baseLen = bl, !.targetLen = tl,
                          !.ops[k] = Retain(o.ops[k].N + n)]
           ELSE [o EXCEPT !.baseLen = bl, !.targetLen = tl,
                          !.ops = Append(o.ops, Retain(n))]

\* IsNoop taking any single operation for a no-op
IsNoop_SingleOp(o) == Len(o.ops) <= 1

IsNoop(o) ==
  \/ Len(o.ops) = 0
  \/ Len(o.ops) = 1 /\ IsRetain(o.ops[1])

(***************************************************************************)
(* Apply.  The result is the pair (text, err) the Go function returns.     *)
(***************************************************************************)
RECURSIVE ApplyLoop(_, _, _, _, _)
\* the loop of Apply with a Retain that copies one rune whatever its count
ApplyLoop_RetainOne(ops, k, runes, idx, result) ==
  IF k > Len(ops) THEN result
  ELSE LET v == ops[k]
       IN  CASE IsRetain(v) ->
                  LET cnt == IF idx < Len(runes) THEN 1 ELSE 0
                  IN  ApplyLoop(ops, k + 1, runes, idx + cnt,
                                result \o SubSeq(runes, idx + 1, idx + cnt))
             [] IsDelete(v) -> ApplyLoop(ops, k + 1, runes, idx + v.N, result)
             [] IsInsert(v) -> ApplyLoop(ops, k + 1, runes, idx, result \o v.Text)

\* the loop of Apply with a Delete that leaves the read cursor in place
ApplyLoop_DeleteStays(ops, k, runes, idx, result) ==
  IF k > Len(ops) THEN result
  ELSE LET v == ops[k]
       IN  CASE IsRetain(v) ->
                  LET cnt == IF idx < Len(runes) THEN Min(v.N, Len(runes) - idx) ELSE 0
                  IN  ApplyLoop(ops, k + 1, runes, idx + cnt,
                                result \o SubSeq(runes, idx + 1, idx + cnt))
             [] IsDelete(v) -> ApplyLoop(ops, k + 1, runes, idx, result)
             [] IsInsert(v) -> ApplyLoop(ops, k + 1, runes, idx, result \o v.Text)

\* the range loop of Apply from the k-th operation on; idx runes are consumed
ApplyLoop(ops, k, runes, idx, result) ==
  IF k > Len(ops) THEN result
  ELSE LET v == ops[k]
       IN  CASE IsRetain(v) ->
                  LET cnt == IF idx < Len(runes) THEN Min(v.N, Len(runes) - idx) ELSE 0
                  IN  ApplyLoop(ops, k + 1, runes, idx + cnt,
                                result \o SubSeq(runes, idx + 1, idx + cnt))
             [] IsDelete(v) -> ApplyLoop(ops, k + 1, runes, idx + v.N, result)
             [] IsInsert(v) -> ApplyLoop(ops, k + 1, runes, idx, result \o v.Text)

\* Apply that skips the base length check
Apply_NoCheck(o, s) ==
  [text |-> ApplyLoop(o.ops, 1, s, 0, <<>>), err |-> ErrNil]

Apply(o, s) ==
  IF charCount(s) # o.baseLen
  THEN [text |-> <<>>, err |-> ErrIncompatibleLengths]
  ELSE [text |-> ApplyLoop(o.ops, 1, s, 0, <<>>), err |-> ErrNil]

(***************************************************************************)
(* Invert.  Go slices runes[idx : idx+n] without a length check: the slice *)
(* expression panics when idx+n exceeds the capacity of runes, and reads   *)
(* the zero runes of the spare capacity when it exceeds only the length.   *)
(* cap is the capacity the runtime gave the slice (cap >= Len(s)).         *)
(***************************************************************************)
ZeroRune == 0

RuneSlice(runes, cap, lo, hi) ==
  [i \in 1..(hi - lo) |-> IF lo + i <= Len(runes) THEN runes[lo + i] ELSE ZeroRune]

RECURSIVE InvertLoop(_, _, _, _, _, _)
InvertLoop(ops, k, runes, cap, idx, inverse) ==
  IF k > Len(ops) THEN [seq |-> inverse, panic |-> FALSE]
  ELSE LET v == ops[k]
       IN  CASE IsRetain(v) ->
                  InvertLoop(ops, k + 1, runes, cap, idx + v.N, SeqRetain(inverse, v.N))
             [] IsInsert(v) ->
                  InvertLoop(ops, k + 1, runes, cap, idx,
                             SeqDelete(inverse, charCount(v.Text)))
             [] IsDelete(v) ->
                  IF idx > cap \/ idx + v.N > cap
                  THEN [seq |-> inverse, panic |-> TRUE]
                  ELSE InvertLoop(ops, k + 1, runes, cap, idx + v.N,
                                  SeqInsert(inverse, RuneSlice(runes, cap, idx, idx + v.N)))

\* Invert that advances the read cursor over inserted text as well
RECURSIVE InvertLoop_InsertAdvances(_, _, _, _, _, _)
InvertLoop_InsertAdvances(ops, k, runes, cap, idx, inverse) ==
  IF k > Len(ops) THEN [seq |-> inverse, panic |-> FALSE]
  ELSE LET v == ops[k]
       IN  CASE IsRetain(v) ->
                  InvertLoop_InsertAdvances(ops, k + 1, runes, cap, idx + v.N,
                                            SeqRetain(inverse, v.N))
             [] IsInsert(v) ->
                  InvertLoop_InsertAdvances(ops, k + 1, runes, cap, idx + charCount(v.Text),
                                            SeqDelete(inverse, charCount(v.Text)))
             [] IsDelete(v) ->
                  IF idx > cap \/ idx + v.N > cap
                  THEN [seq |-> inverse, panic |-> TRUE]
                  ELSE InvertLoop_InsertAdvances(ops, k + 1, runes, cap, idx + v.N,
                                  SeqInsert(inverse, RuneSlice(runes, cap, idx, idx + v.N)))

Invert_InsertAdvances(o, s, cap) ==
  InvertLoop_InsertAdvances(o.ops, 1, s, cap, 0, NewOperationSeq)

\* Invert that maps an Insert to a Delete of its UTF-8 byte length
RECURSIVE InvertLoop_Bytes(_, _, _, _, _, _)
InvertLoop_Bytes(ops, k, runes, cap, idx, inverse) ==
  IF k > Len(ops) THEN [seq |-> inverse, panic |-> FALSE]
  ELSE LET v == ops[k]
       IN  CASE IsRetain(v) ->
                  InvertLoop_Bytes(ops, k + 1, runes, cap, idx + v.N, SeqRetain(inverse, v.N))
             [] IsInsert(v) ->
                  InvertLoop_Bytes(ops, k + 1, runes, cap, idx,
                                   SeqDelete(inverse, Utf8Len(v.Text)))
             [] IsDelete(v) ->
                  IF idx > cap \/ idx + v.N > cap
                  THEN [seq |-> inverse, panic |-> TRUE]
                  ELSE InvertLoop_Bytes(ops, k + 1, runes, cap, idx + v.N,
                                  SeqInsert(inverse, RuneSlice(runes, cap, idx, idx + v.N)))

Invert_Bytes(o, s, cap) == InvertLoop_Bytes(o.ops, 1, s, cap, 0, NewOperationSeq)

\* Invert that maps an Insert to a Delete of one codepoint whatever its length
RECURSIVE InvertLoop_DeleteOne(_, _, _, _, _, _)
InvertLoop_DeleteOne(ops, k, runes, cap, idx, inverse) ==
  IF k > Len(ops) THEN [seq |-> inverse, panic |-> FALSE]
  ELSE LET v == ops[k]
       IN  CASE IsRetain(v) ->
                  InvertLoop_DeleteOne(ops, k + 1, runes, cap, idx + v.N,
                                       SeqRetain(inverse, v.N))
             [] IsInsert(v) ->
                  InvertLoop_DeleteOne(ops, k + 1, runes, cap, idx, SeqDelete(inverse, 1))
             [] IsDelete(v) ->
                  IF idx > cap \/ idx + v.N > cap
                  THEN [seq |-> inverse, panic |-> TRUE]
                  ELSE InvertLoop_DeleteOne(ops, k + 1, runes, cap, idx + v.N,
                                  SeqInsert(inverse, RuneSlice(runes, cap, idx, idx + v.N)))

Invert_DeleteOne(o, s, cap) == InvertLoop_DeleteOne(o.ops, 1, s, cap, 0, NewOperationSeq)

Invert(o, s, cap) == InvertLoop(o.ops, 1, s, cap, 0, NewOperationSeq)

(***************************************************************************)
(* opIterator: next() returns the operation at idx and advances, or nil.   *)
(* An iterator is its list and the number idx of operations handed out.    *)
(***************************************************************************)
\* the nil *OperationSeq of a failed call
NilSeq == [nil |-> TRUE]

NextOp(ops, idx) == IF idx >= Len(ops) THEN NilOp ELSE ops[idx + 1]
NextIdx(ops, idx) == IF idx >= Len(ops) THEN idx ELSE idx + 1

(***************************************************************************)
(* The loop state of Compose and Transform: the two iterators (ops, idx),  *)
(* the two pending operations and the sequences under construction.        *)
(***************************************************************************)
\* op1 = ops1.next()
Next1(st) == [st EXCEPT !.op1 = NextOp(st.ops1, st.idx1),
                        !.idx1 = NextIdx(st.ops1, st.idx1)]
\* op2 = ops2.next()
Next2(st) == [st EXCEPT !.op2 = NextOp(st.ops2, st.idx2),
                        !.idx2 = NextIdx(st.ops2, st.idx2)]

\* how an iteration of the loop ends when it returns instead of continuing
LoopReturnsOk == [returns |-> ErrNil]
LoopReturnsErr == [returns |-> ErrIncompatibleLengths]

(***************************************************************************)
(* Compose.  Each definition is one block of the loop body and maps the    *)
(* loop state at its entry to the loop state at its continue.              *)
(***************************************************************************)
\* a Delete of the first sequence appended to the result without merging
ComposeDelete1_NoMerge(st) ==
  Next1([st EXCEPT !.result = SeqDelete_NoMerge(@, st.op1.N)])

\* Delete from first operation takes priority
ComposeDelete1(st) ==
  Next1([st EXCEPT !.result = SeqDelete(@, st.op1.N)])

\* an Insert of the second sequence appended to the result behind a Delete
ComposeInsert2_Append(st) ==
  Next2([st EXCEPT !.result = SeqInsert_Append(@, st.op2.Text)])

\* Insert from second operation takes priority
ComposeInsert2(st) ==
  Next2([st EXCEPT !.result = SeqInsert(@, st.op2.Text)])

ComposeRetainRetain(st) ==
  LET n1 == st.op1.N
      n2 == st.op2.N
  IN  IF n1 < n2
      THEN Next1([st EXCEPT !.result = SeqRetain(@, n1), !.op2 = Retain(n2 - n1)])
      ELSE IF n1 = n2
      THEN Next2(Next1([st EXCEPT !.result = SeqRetain(@, n1)]))
      ELSE Next2([st EXCEPT !.result = SeqRetain(@, n2), !.op1 = Retain(n1 - n2)])

\* Insert vs Delete that keeps the head of a longer insert instead of its tail
ComposeInsertDelete_KeepHead(st) ==
  LET text == st.op1.Text
      insLen == charCount(text)
      n == st.op2.N
  IN  IF insLen < n
      THEN Next1([st EXCEPT !.op2 = Delete(n - insLen)])
      ELSE IF insLen = n
      THEN Next2(Next1(st))
      ELSE Next2([st EXCEPT !.op1 = Insert(SubSeq(text, 1, insLen - n))])

\* Insert vs Delete that records the deletion of the overlap in the result
ComposeInsertDelete_EmitDelete(st) ==
  LET text == st.op1.Text
      insLen == charCount(text)
      n == st.op2.N
  IN  IF insLen < n
      THEN Next1([st EXCEPT !.result = SeqDelete(@, insLen), !.op2 = Delete(n - insLen)])
      ELSE IF insLen = n
      THEN Next2(Next1([st EXCEPT !.result = SeqDelete(@, n)]))
      ELSE Next2([st EXCEPT !.result = SeqDelete(@, n),
                            !.op1 = Insert(SubSeq(text, n + 1, insLen))])

ComposeInsertDelete(st) ==
  LET text == st.op1.Text
      insLen == charCount(text)
      n == st.op2.N
  IN  IF insLen < n
      THEN Next1([st EXCEPT !.op2 = Delete(n - insLen)])
      ELSE IF insLen = n
      THEN Next2(Next1(st))
      ELSE Next2([st EXCEPT !.op1 = Insert(SubSeq(text, n + 1, insLen))])

\* Insert vs Retain that forgets an Insert shorter than the Retain
ComposeInsertRetain_ForgetsShort(st) ==
  LET text == st.op1.Text
      insLen == charCount(text)
      n == st.op2.N
  IN  IF insLen < n
      THEN Next1([st EXCEPT !.op2 = Retain(n - insLen)])
      ELSE IF insLen = n
      THEN Next2(Next1([st EXCEPT !.result = SeqInsert(@, text)]))
      ELSE Next2([st EXCEPT !.result = SeqInsert(@, SubSeq(text, 1, n)),
                            !.op1 = Insert(SubSeq(text, n + 1, insLen))])

ComposeInsertRetain(st) ==
  LET text == st.op1.Text
      insLen == charCount(text)
      n == st.op2.N
  IN  IF insLen < n
      THEN Next1([st EXCEPT !.result = SeqInsert(@, text), !.op2 = Retain(n - insLen)])
      ELSE IF insLen = n
      THEN Next2(Next1([st EXCEPT !.result = SeqInsert(@, text)]))
      ELSE Next2([st EXCEPT !.result = SeqInsert(@, SubSeq(text, 1, n)),
                            !.op1 = Insert(SubSeq(text, n + 1, insLen))])

\* Retain vs Delete that keeps the span in the result instead of deleting it
ComposeRetainDelete_KeepsSpan(st) ==
  LET n1 == st.op1.N
      n2 == st.op2.N
  IN  IF n1 < n2
      THEN Next1([st EXCEPT !.result = SeqRetain(@, n1), !.op2 = Delete(n2 - n1)])
      ELSE IF n1 = n2
      THEN Next1(Next2([st EXCEPT !.result = SeqRetain(@, n2)]))
      ELSE Next2([st EXCEPT !.result = SeqRetain(@, n2), !.op1 = Retain(n1 - n2)])

ComposeRetainDelete(st) ==
  LET n1 == st.op1.N
      n2 == st.op2.N
  IN  IF n1 < n2
      THEN Next1([st EXCEPT !.result = SeqDelete(@, n1), !.op2 = Delete(n2 - n1)])
      ELSE IF n1 = n2
      THEN Next1(Next2([st EXCEPT !.result = SeqDelete(@, n2)]))
      ELSE Next2([st EXCEPT !.result = SeqDelete(@, n2), !.op1 = Retain(n1 - n2)])

\* one iteration of Compose's loop: the state the next iteration starts
\* from, or the way the iteration returns
ComposeBody(st) ==
  LET op1 == st.op1
      op2 == st.op2
  IN  IF op1 = NilOp /\ op2 = NilOp THEN LoopReturnsOk
      ELSE IF IsDelete(op1) THEN ComposeDelete1(st)
      ELSE IF IsInsert(op2) THEN ComposeInsert2(st)
      ELSE IF op1 = NilOp \/ op2 = NilOp THEN LoopReturnsErr
      ELSE IF IsRetain(op1) /\ IsRetain(op2) THEN ComposeRetainRetain(st)
      ELSE IF IsInsert(op1) /\ IsDelete(op2) THEN ComposeInsertDelete(st)
      ELSE IF IsInsert(op1) /\ IsRetain(op2) THEN ComposeInsertRetain(st)
      ELSE IF IsRetain(op1) /\ IsDelete(op2) THEN ComposeRetainDelete(st)
      ELSE LoopReturnsErr

RECURSIVE ComposeLoop(_, _)
\* iters counts the iterations of the loop, the returning one included
ComposeLoop(st, iters) ==
  LET nx == ComposeBody(st)
      n == iters + 1
  IN  IF nx = LoopReturnsOk
      THEN [seq |-> st.result, err |-> ErrNil, iters |-> n]
      ELSE IF nx = LoopReturnsErr
      THEN [seq |-> NilSeq, err |-> ErrIncompatibleLengths, iters |-> n]
      ELSE ComposeLoop(nx, n)

\* the state Compose's loop starts from
ComposeStart(x, y) ==
  Next2(Next1([ops1 |-> x.ops, idx1 |-> 0, op1 |-> NilOp,
               ops2 |-> y.ops, idx2 |-> 0, op2 |-> NilOp,
               result |-> NewOperationSeq]))

RECURSIVE ComposeStates(_)
\* the states at the top of the loop, one per iteration, from st on
ComposeStates(st) ==
  IF ComposeBody(st) \in {LoopReturnsOk, LoopReturnsErr} THEN <<st>>
  ELSE <<st>> \o ComposeStates(ComposeBody(st))

\* Compose handing back the empty result it has allocated along with the error
Compose_PartialOnError(x, y) ==
  IF x.targetLen # y.baseLen
  THEN [seq |-> NewOperationSeq, err |-> ErrIncompatibleLengths, iters |-> 0]
  ELSE ComposeLoop(Next2(Next1([ops1 |-> x.ops, idx1 |-> 0, op1 |-> NilOp,
                                ops2 |-> y.ops, idx2 |-> 0, op2 |-> NilOp,
                                result |-> NewOperationSeq])), 0)

Compose(x, y) ==
  IF x.targetLen # y.baseLen
  THEN [seq |-> NilSeq, err |-> ErrIncompatibleLengths, iters |-> 0]
  ELSE ComposeLoop(Next2(Next1([ops1 |-> x.ops, idx1 |-> 0, op1 |-> NilOp,
                                ops2 |-> y.ops, idx2 |-> 0, op2 |-> NilOp,
                                result |-> NewOperationSeq])), 0)

(***************************************************************************)
(* Transform.  Go compares strings byte by byte over their UTF-8 encoding. *)
(***************************************************************************)
Utf8Rune(c) ==
  IF c < 128 THEN <<c>>
  ELSE IF c < 2048 THEN <<192 + (c \div 64), 128 + (c % 64)>>
  ELSE IF c < 65536
  THEN <<224 + (c \div 4096), 128 + ((c \div 64) % 64), 128 + (c % 64)>>
  ELSE <<240 + (c \div 262144), 128 + ((c \div 4096) % 64),
         128 + ((c \div 64) % 64), 128 + (c % 64)>>

RECURSIVE Utf8(_)
Utf8(s) == IF s = <<>> THEN <<>> ELSE Utf8Rune(Head(s)) \o Utf8(Tail(s))

RECURSIVE BytesLess(_, _)
BytesLess(x, y) ==
  IF y = <<>> THEN FALSE
  ELSE IF x = <<>> THEN TRUE
  ELSE IF Head(x) # Head(y) THEN Head(x) < Head(y)
  ELSE BytesLess(Tail(x), Tail(y))

\* the comparison turned around
StrLess_Greater(s, t) == BytesLess(Utf8(t), Utf8(s))

\* s < t on Go strings
StrLess(s, t) == BytesLess(Utf8(s), Utf8(t))

\* Insert vs Insert where equal texts are taken as one insertion
TransformInsertInsert_Dedup(st) ==
  LET t1 == st.op1.Text
      t2 == st.op2.Text
  IN  IF StrLess(t1, t2)
      THEN Next1([st EXCEPT !.aPrime = SeqInsert(@, t1),
                            !.bPrime = SeqRetain(@, charCount(t1))])
      ELSE IF t1 = t2
      THEN Next2(Next1(st))
      ELSE Next2([st EXCEPT !.aPrime = SeqRetain(@, charCount(t2)),
                            !.bPrime = SeqInsert(@, t2)])

\* Insert vs Insert where the receiver's text goes first unless the texts
\* are equal
TransformInsertInsert_ReceiverFirst(st) ==
  LET t1 == st.op1.Text
      t2 == st.op2.Text
  IN  IF t1 # t2
      THEN Next1([st EXCEPT !.aPrime = SeqInsert(@, t1),
                            !.bPrime = SeqRetain(@, charCount(t1))])
      ELSE Next2(Next1([st EXCEPT
             !.aPrime = SeqRetain(SeqInsert(@, t1), charCount(t1)),
             !.bPrime = SeqRetain(SeqInsert(@, t2), charCount(t2))]))

\* Insert vs Insert: string comparison breaks the tie
TransformInsertInsert(st) ==
  LET t1 == st.op1.Text
      t2 == st.op2.Text
  IN  IF StrLess(t1, t2)
      THEN Next1([st EXCEPT !.aPrime = SeqInsert(@, t1),
                            !.bPrime = SeqRetain(@, charCount(t1))])
      ELSE IF t1 = t2
      THEN Next2(Next1([st EXCEPT
             !.aPrime = SeqRetain(SeqInsert(@, t1), charCount(t1)),
             !.bPrime = SeqRetain(SeqInsert(@, t2), charCount(t2))]))
      ELSE Next2([st EXCEPT !.aPrime = SeqRetain(@, charCount(t2)),
                            !.bPrime = SeqInsert(@, t2)])

\* Insert from first operation that is dropped when the other side is
\* deleting at that place
TransformInsert1_DroppedUnderDelete(st) ==
  IF IsDelete(st.op2)
  THEN Next1(st)
  ELSE Next1([st EXCEPT !.aPrime = SeqInsert(@, st.op1.Text),
                        !.bPrime = SeqRetain(@, charCount(st.op1.Text))])

\* Insert from first operation
TransformInsert1(st) ==
  Next1([st EXCEPT !.aPrime = SeqInsert(@, st.op1.Text),
                   !.bPrime = SeqRetain(@, charCount(st.op1.Text))])

\* Insert from second operation with no Retain over it in A'
TransformInsert2_NoRetain(st) ==
  Next2([st EXCEPT !.bPrime = SeqInsert(@, st.op2.Text)])

\* Insert from second operation
TransformInsert2(st) ==
  Next2([st EXCEPT !.aPrime = SeqRetain(@, charCount(st.op2.Text)),
                   !.bPrime = SeqInsert(@, st.op2.Text)])

\* Retain vs Retain that emits the common span into A' only
TransformRetainRetain_OnlyA(st) ==
  LET n1 == st.op1.N
      n2 == st.op2.N
  IN  IF n1 < n2
      THEN Next1([st EXCEPT !.aPrime = SeqRetain(@, n1), !.op2 = Retain(n2 - n1)])
      ELSE IF n1 = n2
      THEN Next2(Next1([st EXCEPT !.aPrime = SeqRetain(@, n1)]))
      ELSE Next2([st EXCEPT !.aPrime = SeqRetain(@, n2), !.op1 = Retain(n1 - n2)])

TransformRetainRetain(st) ==
  LET n1 == st.op1.N
      n2 == st.op2.N
  IN  IF n1 < n2
      THEN Next1([st EXCEPT !.aPrime = SeqRetain(@, n1), !.bPrime = SeqRetain(@, n1),
                            !.op2 = Retain(n2 - n1)])
      ELSE IF n1 = n2
      THEN Next2(Next1([st EXCEPT !.aPrime = SeqRetain(@, n1),
                                  !.bPrime = SeqRetain(@, n1)]))
      ELSE Next2([st EXCEPT !.aPrime = SeqRetain(@, n2), !.bPrime = SeqRetain(@, n2),
                            !.op1 = Retain(n1 - n2)])

\* Delete vs Delete that emits the common span into B'
TransformDeleteDelete_IntoBPrime(st) ==
  LET n1 == st.op1.N
      n2 == st.op2.N
  IN  IF n1 < n2
      THEN Next1([st EXCEPT !.bPrime = SeqDelete(@, n1), !.op2 = Delete(n2 - n1)])
      ELSE IF n1 = n2
      THEN Next2(Next1([st EXCEPT !.bPrime = SeqDelete(@, n1)]))
      ELSE Next2([st EXCEPT !.bPrime = SeqDelete(@, n2), !.op1 = Delete(n1 - n2)])

\* Delete vs Delete that also emits the common span into A'
TransformDeleteDelete_Twice(st) ==
  LET n1 == st.op1.N
      n2 == st.op2.N
  IN  IF n1 < n2
      THEN Next1([st EXCEPT !.aPrime = SeqDelete(@, n1), !.op2 = Delete(n2 - n1)])
      ELSE IF n1 = n2
      THEN Next2(Next1([st EXCEPT !.aPrime = SeqDelete(@, n1)]))
      ELSE Next2([st EXCEPT !.aPrime = SeqDelete(@, n2), !.op1 = Delete(n1 - n2)])

TransformDeleteDelete(st) ==
  LET n1 == st.op1.N
      n2 == st.op2.N
  IN  IF n1 < n2
      THEN Next1([st EXCEPT !.op2 = Delete(n2 - n1)])
      ELSE IF n1 = n2
      THEN Next2(Next1(st))
      ELSE Next2([st EXCEPT !.op1 = Delete(n1 - n2)])

\* Delete vs Retain that also retains the deleted span in bPrime
TransformDeleteRetain_RetainsInB(st) ==
  LET n1 == st.op1.N
      n2 == st.op2.N
      m == Min(n1, n2)
      out == [st EXCEPT !.aPrime = SeqDelete(@, m), !.bPrime = SeqRetain(@, m)]
  IN  IF n1 < n2
      THEN Next1([out EXCEPT !.op2 = Retain(n2 - n1)])
      ELSE IF n1 = n2
      THEN Next2(Next1(out))
      ELSE Next2([out EXCEPT !.op1 = Delete(n1 - n2)])

TransformDeleteRetain(st) ==
  LET n1 == st.op1.N
      n2 == st.op2.N
  IN  IF n1 < n2
      THEN Next1([st EXCEPT !.aPrime = SeqDelete(@, n1), !.op2 = Retain(n2 - n1)])
      ELSE IF n1 = n2
      THEN Next2(Next1([st EXCEPT !.aPrime = SeqDelete(@, n1)]))
      ELSE Next2([st EXCEPT !.aPrime = SeqDelete(@, n2), !.op1 = Delete(n1 - n2)])

\* Retain vs Delete that emits the Delete into the retaining side's output
TransformRetainDelete_WrongSide(st) ==
  LET n1 == st.op1.N
      n2 == st.op2.N
  IN  IF n1 < n2
      THEN Next1([st EXCEPT !.aPrime = SeqDelete(@, n1), !.op2 = Delete(n2 - n1)])
      ELSE IF n1 = n2
      THEN Next2(Next1([st EXCEPT !.aPrime = SeqDelete(@, n1)]))
      ELSE Next2([st EXCEPT !.aPrime = SeqDelete(@, n2), !.op1 = Retain(n1 - n2)])

TransformRetainDelete(st) ==
  LET n1 == st.op1.N
      n2 == st.op2.N
  IN  IF n1 < n2
      THEN Next1([st EXCEPT !.bPrime = SeqDelete(@, n1), !.op2 = Delete(n2 - n1)])
      ELSE IF n1 = n2
      THEN Next2(Next1([st EXCEPT !.bPrime = SeqDelete(@, n1)]))
      ELSE Next2([st EXCEPT !.bPrime = SeqDelete(@, n2), !.op1 = Retain(n1 - n2)])

\* a loop body that reports success as soon as either side is exhausted
TransformBody_OkWhenOneExhausted(st) ==
  LET op1 == st.op1
      op2 == st.op2
  IN  IF op1 = NilOp \/ op2 = NilOp THEN LoopReturnsOk
      ELSE IF IsInsert(op1) /\ IsInsert(op2) THEN TransformInsertInsert(st)
      ELSE IF IsInsert(op1) THEN TransformInsert1(st)
      ELSE IF IsInsert(op2) THEN TransformInsert2(st)
      ELSE IF IsRetain(op1) /\ IsRetain(op2) THEN TransformRetainRetain(st)
      ELSE IF IsDelete(op1) /\ IsDelete(op2) THEN TransformDeleteDelete(st)
      ELSE IF IsDelete(op1) /\ IsRetain(op2) THEN TransformDeleteRetain(st)
      ELSE IF IsRetain(op1) /\ IsDelete(op2) THEN TransformRetainDelete(st)
      ELSE LoopReturnsErr

\* one iteration of Transform's loop: the state the next iteration starts
\* from, or the way the iteration returns
TransformBody(st) ==
  LET op1 == st.op1
      op2 == st.op2
  IN  IF op1 = NilOp /\ op2 = NilOp THEN LoopReturnsOk
      ELSE IF IsInsert(op1) /\ IsInsert(op2) THEN TransformInsertInsert(st)
      ELSE IF IsInsert(op1) THEN TransformInsert1(st)
      ELSE IF IsInsert(op2) THEN TransformInsert2(st)
      ELSE IF op1 = NilOp \/ op2 = NilOp THEN LoopReturnsErr
      ELSE IF IsRetain(op1) /\ IsRetain(op2) THEN TransformRetainRetain(st)
      ELSE IF IsDelete(op1) /\ IsDelete(op2) THEN TransformDeleteDelete(st)
      ELSE IF IsDelete(op1) /\ IsRetain(op2) THEN TransformDeleteRetain(st)
      ELSE IF IsRetain(op1) /\ IsDelete(op2) THEN TransformRetainDelete(st)
      ELSE LoopReturnsErr

RECURSIVE TransformLoop(_, _)
\* iters counts the iterations of the loop, the returning one included
TransformLoop(st, iters) ==
  LET nx == TransformBody(st)
      n == iters + 1
  IN  IF nx = LoopReturnsOk
      THEN [aPrime |-> st.aPrime, bPrime |-> st.bPrime, err |-> ErrNil, iters |-> n]
      ELSE IF nx = LoopReturnsErr
      THEN [aPrime |-> NilSeq, bPrime |-> NilSeq,
            err |-> ErrIncompatibleLengths, iters |-> n]
      ELSE TransformLoop(nx, n)

\* the state Transform's loop starts from
TransformStart(x, y) ==
  Next2(Next1([ops1 |-> x.ops, idx1 |-> 0, op1 |-> NilOp,
               ops2 |-> y.ops, idx2 |-> 0, op2 |-> NilOp,
               aPrime |-> NewOperationSeq,
               bPrime |-> NewOperationSeq]))

RECURSIVE TransformStates(_)
\* the states at the top of the loop, one per iteration, from st on
TransformStates(st) ==
  IF TransformBody(st) \in {LoopReturnsOk, LoopReturnsErr} THEN <<st>>
  ELSE <<st>> \o TransformStates(TransformBody(st))

\* Transform handing back empty sequences along with the error
Transform_PartialOnError(x, y) ==
  IF x.baseLen # y.baseLen
  THEN [aPrime |-> NewOperationSeq, bPrime |-> NewOperationSeq,
        err |-> ErrIncompatibleLengths, iters |-> 0]
  ELSE TransformLoop(Next2(Next1([ops1 |-> x.ops, idx1 |-> 0, op1 |-> NilOp,
                                  ops2 |-> y.ops, idx2 |-> 0, op2 |-> NilOp,
                                  aPrime |-> NewOperationSeq,
                                  bPrime |-> NewOperationSeq])), 0)

Transform(x, y) ==
  IF x.baseLen # y.baseLen
  THEN [aPrime |-> NilSeq, bPrime |-> NilSeq, err |-> ErrIncompatibleLengths, iters |-> 0]
  ELSE TransformLoop(Next2(Next1([ops1 |-> x.ops, idx1 |-> 0, op1 |-> NilOp,
                                  ops2 |-> y.ops, idx2 |-> 0, op2 |-> NilOp,
                                  aPrime |-> NewOperationSeq,
                                  bPrime |-> NewOperationSeq])), 0)

(***************************************************************************)
(* The wire codec.  A decoded JSON array is a sequence of JSON values; a   *)
(* number carries its value, a string its codepoints.                      *)
(***************************************************************************)
JNumber(v) == [kind |-> "number", v |-> v]
JString(t) == [kind |-> "string", s |-> t]
JNull == [kind |-> "null"]
JBool == [kind |-> "bool"]
JArray == [kind |-> "array"]
JObject == [kind |-> "object"]

\* what json.Unmarshal is handed: an array, or bytes it rejects
JsonArray(raw) == [json |-> "array", raw |-> raw]
JsonRejected == [json |-> "rejected"]

\* the wire element of an operation that loses the sign of a Delete
MarshalOp_Unsigned(op) ==
  CASE IsRetain(op) -> JNumber(op.N)
    [] IsDelete(op) -> JNumber(op.N)
    [] IsInsert(op) -> JString(op.Text)

MarshalOp(op) ==
  CASE IsRetain(op) -> JNumber(op.N)
    [] IsDelete(op) -> JNumber(0 - op.N)
    [] IsInsert(op) -> JString(op.Text)

\* MarshalJSON appending to the slice it made with len(o.ops) elements
MarshalJSON_AppendAfterMake(o) ==
  IF o = NilSeq
  THEN [wire |-> <<>>, err |-> ErrNil]
  ELSE [wire |-> [i \in 1..Len(o.ops) |-> JNull]
                   \o [i \in 1..Len(o.ops) |-> MarshalOp(o.ops[i])],
        err |-> ErrNil]

MarshalJSON(o) ==
  IF o = NilSeq
  THEN [wire |-> <<>>, err |-> ErrNil]
  ELSE [wire |-> [i \in 1..Len(o.ops) |-> MarshalOp(o.ops[i])], err |-> ErrNil]

\* %T of the Go value a JSON value decodes to
GoTypeName(item) ==
  CASE item.kind = "null" -> "<nil>"
    [] item.kind = "bool" -> "bool"
    [] item.kind = "array" -> "[]interface {}"
    [] item.kind = "object" -> "map[string]interface {}"
    [] item.kind = "number" -> "float64"
    [] item.kind = "string" -> "string"

ErrJson == "json: cannot unmarshal"
\* fmt.Errorf("invalid operation type: %T", item)
ErrInvalidOperationType(item) ==
  LET t == GoTypeName(item)
  IN  CASE t = "<nil>" -> "invalid operation type: <nil>"
        [] t = "bool" -> "invalid operation type: bool"
        [] t = "[]interface {}" -> "invalid operation type: []interface {}"
        [] t = "map[string]interface {}" -> "invalid operation type: map[string]interface {}"
        [] t = "float64" -> "invalid operation type: float64"
        [] t = "string" -> "invalid operation type: string"

RECURSIVE UnmarshalLoop(_, _, _)
\* the loop of UnmarshalJSON passing over an item of another type
UnmarshalLoop_SkipOthers(raw, k, o) ==
  IF k > Len(raw) THEN [seq |-> o, err |-> ErrNil]
  ELSE LET item == raw[k]
       IN  CASE item.kind = "string" -> UnmarshalLoop(raw, k + 1, SeqInsert(o, item.s))
             [] item.kind = "number" ->
                  IF item.v >= 0
                  THEN UnmarshalLoop(raw, k + 1, SeqRetain(o, item.v))
                  ELSE UnmarshalLoop(raw, k + 1, SeqDelete(o, 0 - item.v))
             [] OTHER -> UnmarshalLoop(raw, k + 1, o)

\* the range loop of UnmarshalJSON from the k-th item on
UnmarshalLoop(raw, k, o) ==
  IF k > Len(raw) THEN [seq |-> o, err |-> ErrNil]
  ELSE LET item == raw[k]
       IN  CASE item.kind = "string" -> UnmarshalLoop(raw, k + 1, SeqInsert(o, item.s))
             [] item.kind = "number" ->
                  IF item.v >= 0
                  THEN UnmarshalLoop(raw, k + 1, SeqRetain(o, item.v))
                  ELSE UnmarshalLoop(raw, k + 1, SeqDelete(o, 0 - item.v))
             [] OTHER -> [seq |-> o, err |-> ErrInvalidOperationType(item)]

\* UnmarshalJSON decoding on top of what the receiver holds
UnmarshalJSON_KeepReceiver(o, data) ==
  IF data.json # "array"
  THEN [seq |-> o, err |-> ErrJson]
  ELSE UnmarshalLoop(data.raw, 1, o)

\* the receiver o after the call, and the error returned
UnmarshalJSON(o, data) ==
  IF data.json # "array"
  THEN [seq |-> o, err |-> ErrJson]
  ELSE UnmarshalLoop(data.raw, 1, NewOperationSeq)

(***************************************************************************)
(* The sequences the builder can reach.  Every count is a run of unit      *)
(* calls, so unit calls reach every sequence the builder reaches.          *)
(***************************************************************************)
Fits(o, lim) == o.baseLen <= lim /\ o.targetLen <= lim

UnitCalls(o) ==
  {SeqRetain(o, 1), SeqDelete(o, 1)} \cup {SeqInsert(o, <<c>>) : c \in Alphabet}

RECURSIVE Grow(_, _, _)
\* the sequences within lim reachable from the set of sequences front
Grow(seen, front, lim) ==
  IF front = {} THEN seen
  ELSE LET new == {x \in UNION {UnitCalls(o) : o \in front} : Fits(x, lim)} \ seen
       IN  Grow(seen \cup new, new, lim)

Built(lim) == Grow({NewOperationSeq}, {NewOperationSeq}, lim)

BuiltSeqs == Built(MaxLen)
BuiltPairSeqs == Built(MaxPairLen)

NoCall == [fn |-> "none"]
NoRes == [fn |-> "none"]

(***************************************************************************)
(* The builder calls on the sequence a.                                    *)
(***************************************************************************)
CallRetain(n, lim) ==
  /\ Fits(SeqRetain(a, n), lim)
  /\ a' = SeqRetain(a, n)
  /\ call' = [fn |-> "Retain", n |-> n]
  /\ res' = NoRes
  /\ UNCHANGED b

CallDelete(n, lim) ==
  /\ Fits(SeqDelete(a, n), lim)
  /\ a' = SeqDelete(a, n)
  /\ call' = [fn |-> "Delete", n |-> n]
  /\ res' = NoRes
  /\ UNCHANGED b

CallInsert(t, lim) ==
  /\ Fits(SeqInsert(a, t), lim)
  /\ a' = SeqInsert(a, t)
  /\ call' = [fn |-> "Insert", text |-> t]
  /\ res' = NoRes
  /\ UNCHANGED b

(***************************************************************************)
(* SpecBuild: one sequence under construction.                             *)
(***************************************************************************)
InitBuild ==
  /\ a = NewOperationSeq
  /\ b = NewOperationSeq
  /\ call = [fn |-> "NewOperationSeq"]
  /\ res = NoRes

NextBuild ==
  \/ \E n \in 0..MaxCount : CallRetain(n, MaxLen)
  \/ \E n \in 0..MaxCount : CallDelete(n, MaxLen)
  \/ \E t \in TextsUpTo(MaxInsLen) : CallInsert(t, MaxLen)

SpecBuild == InitBuild /\ [][NextBuild]_vars

(***************************************************************************)
(* Invariants of the operation list.                                       *)
(***************************************************************************)
Last(q) == q[Len(q)]

IsSuffix(t, s) ==
  /\ Len(t) <= Len(s)
  /\ SubSeq(s, Len(s) - Len(t) + 1, Len(s)) = t

CanonicalOrder(o) ==
  \A i \in 1..(Len(o.ops) - 1) : ~(IsDelete(o.ops[i]) /\ IsInsert(o.ops[i + 1]))

NoAdjacentSameVariant(o) ==
  \A i \in 1..(Len(o.ops) - 1) : o.ops[i].type # o.ops[i + 1].type

RECURSIVE SumBase(_)
SumBase(ops) ==
  IF ops = <<>> THEN 0
  ELSE (IF IsInsert(Last(ops)) THEN 0 ELSE Last(ops).N)
         + SumBase(SubSeq(ops, 1, Len(ops) - 1))

RECURSIVE SumTarget(_)
SumTarget(ops) ==
  IF ops = <<>> THEN 0
  ELSE (CASE IsRetain(Last(ops)) -> Last(ops).N
          [] IsDelete(Last(ops)) -> 0
          [] IsInsert(Last(ops)) -> Len(Last(ops).Text))
         + SumTarget(SubSeq(ops, 1, Len(ops) - 1))

LengthCounters(o) ==
  /\ o.baseLen = SumBase(o.ops)
  /\ o.targetLen = SumTarget(o.ops)

\* a step that issues a non-empty Insert on a list ending in a Delete leaves
\* that Delete last and the inserted text at the end of the Insert before it
InsertGoesBeforeTrailingDelete ==
  (/\ call'.fn = "Insert" /\ call'.text # <<>>
   /\ a.ops # <<>> /\ IsDelete(Last(a.ops)))
  => LET n == Len(a'.ops)
     IN  /\ n >= 2
         /\ a'.ops[n] = Last(a.ops)
         /\ IsInsert(a'.ops[n - 1])
         /\ IsSuffix(call'.text, a'.ops[n - 1].Text)

\* C6: canonical order. No Insert sits immediately after a Delete in the list
\* under construction, and an Insert issued while the last element is a
\* Delete ends up before that Delete.
C6_CanonicalOrder ==
  /\ [](CanonicalOrder(a))
  /\ [][InsertGoesBeforeTrailingDelete]_vars

\* a non-empty Insert was just issued and the list still ends in a Delete
C6_Witness ==
  /\ call.fn = "Insert" /\ call.text # <<>>
  /\ Len(a.ops) >= 2 /\ IsDelete(Last(a.ops))
  /\ IsInsert(a.ops[Len(a.ops) - 1])

\* C7: merge invariant. The list under construction never holds two adjacent
\* elements of the same variant.
C7_MergeInvariant == NoAdjacentSameVariant(a)

\* a Delete call was merged into the trailing Delete of a list of three elements
C7_Witness ==
  /\ call.fn = "Delete" /\ call.n > 0
  /\ Len(a.ops) = 3 /\ IsDelete(Last(a.ops)) /\ Last(a.ops).N > call.n

\* C8: length counters. baseLen is the sum of the Retain and Delete counts,
\* targetLen the sum of the Retain counts and the Insert text lengths.
C8_LengthCounters == LengthCounters(a)

\* a list with all three variants, one of them an Insert of a 2-byte codepoint
C8_Witness ==
  /\ \E i \in 1..Len(a.ops) : IsRetain(a.ops[i])
  /\ \E i \in 1..Len(a.ops) : IsDelete(a.ops[i])
  /\ \E i \in 1..Len(a.ops) : IsInsert(a.ops[i]) /\ 233 \in {a.ops[i].Text[j] : j \in 1..Len(a.ops[i].Text)}

\* the call just issued is a Retain or has zero length
RetainOrZeroCall ==
  \/ call'.fn = "Retain"
  \/ call'.fn = "Delete" /\ call'.n = 0
  \/ call'.fn = "Insert" /\ call'.text = <<>>

\* the call just issued is a non-empty Insert or a non-zero Delete
ChangingCall ==
  \/ call'.fn = "Delete" /\ call'.n > 0
  \/ call'.fn = "Insert" /\ call'.text # <<>>

\* C24: IsNoop is true for a new sequence and stays true over Retain calls
\* and zero-length calls; it is false after a non-empty Insert or a non-zero
\* Delete and stays false from then on; and while IsNoop is true, Apply
\* returns every text of length baseLen unchanged.
C24_NoopStatus ==
  /\ [](call.fn = "NewOperationSeq" => IsNoop(a))
  /\ [][(IsNoop(a) /\ RetainOrZeroCall) => IsNoop(a')]_vars
  /\ [][(ChangingCall \/ ~IsNoop(a)) => ~IsNoop(a')]_vars
  /\ [](IsNoop(a) => \A S \in TextsOfLen(a.baseLen) :
                        Apply(a, S) = [text |-> S, err |-> ErrNil])

\* a second Retain was issued and the sequence, now one merged Retain, is
\* still a no-op
C24_Witness ==
  /\ call.fn = "Retain" /\ call.n > 0
  /\ a.baseLen > call.n
  /\ IsNoop(a)

\* the list that Insert(t), t non-empty, makes of the list ops
PlacedInsert(ops, t) ==
  LET n == Len(ops)
  IN  IF n >= 1 /\ ops[n].type = "Insert"
      THEN SubSeq(ops, 1, n - 1) \o <<Insert(ops[n].Text \o t)>>
      ELSE IF n >= 2 /\ ops[n].type = "Delete" /\ ops[n - 1].type = "Insert"
      THEN SubSeq(ops, 1, n - 2) \o <<Insert(ops[n - 1].Text \o t), ops[n]>>
      ELSE IF n >= 1 /\ ops[n].type = "Delete"
      THEN SubSeq(ops, 1, n - 1) \o <<Insert(t), ops[n]>>
      ELSE ops \o <<Insert(t)>>

\* a step that issues a non-empty Insert places it by the four rules
InsertPlacement ==
  (call'.fn = "Insert" /\ call'.text # <<>>)
  => /\ a'.ops = PlacedInsert(a.ops, call'.text)
     /\ Len(a'.ops) <= Len(a.ops) + 1

\* C28: Insert(t), t non-empty, (a) appends t to a trailing Insert's text;
\* else (b) turns a list ending [Insert(u), Delete(n)] into one ending
\* [Insert(u+t), Delete(n)]; else (c) goes immediately before a trailing
\* Delete; else (d) is appended. The list grows by at most one element and
\* the other elements stay as they are.
C28_InsertPlacement == [][InsertPlacement]_vars

\* a non-empty Insert was issued on a list ending [Insert, Delete] and has
\* merged into the Insert, after the text that was there
C28_Witness ==
  /\ call.fn = "Insert" /\ call.text # <<>>
  /\ Len(a.ops) >= 2
  /\ IsDelete(Last(a.ops))
  /\ IsInsert(a.ops[Len(a.ops) - 1])
  /\ Len(a.ops[Len(a.ops) - 1].Text) > Len(call.text)
  /\ a.ops[Len(a.ops) - 1].Text[1] # call.text[1]

(***************************************************************************)
(* SpecPair: two built sequences handed to Transform and Compose.          *)
(***************************************************************************)
\* the sequences of TestTransform's case "concurrent inserts at different
\* positions": Retain(3), Insert("def") and Retain(3), Insert("ghi")
TestInsertsA == SeqInsert(SeqRetain(NewOperationSeq, 3), <<100, 101, 102>>)
TestInsertsB == SeqInsert(SeqRetain(NewOperationSeq, 3), <<103, 104, 105>>)

PairInputs == BuiltPairSeqs \cup {TestInsertsA, TestInsertsB}

InitPair ==
  /\ a \in PairInputs
  /\ b \in PairInputs
  /\ call = NoCall
  /\ res = NoRes

\* aPrime, bPrime, err := a.Transform(b)
DoTransform ==
  /\ call' = [fn |-> "Transform"]
  /\ res' = Transform(a, b)
  /\ UNCHANGED <<a, b>>

\* a Compose that builds its result in the receiver
DoCompose_InPlace ==
  /\ call' = [fn |-> "Compose"]
  /\ res' = Compose(a, b)
  /\ a' = IF Compose(a, b).err = ErrNil THEN Compose(a, b).seq ELSE a
  /\ UNCHANGED b

\* seq, err := a.Compose(b)
DoCompose ==
  /\ call' = [fn |-> "Compose"]
  /\ res' = Compose(a, b)
  /\ UNCHANGED <<a, b>>

NextPair == DoTransform \/ DoCompose

SpecPair == InitPair /\ [][NextPair]_vars

HasVariant(o, type) == \E i \in 1..Len(o.ops) : o.ops[i].type = type

\* C1: convergence (TP1). For sequences a and b of the same baseLen, Transform
\* succeeds and, for every text S of that length, applying bPrime after a and
\* aPrime after b both succeed and give the same text.
C1_Convergence ==
  (call.fn = "Transform" /\ a.baseLen = b.baseLen)
  => /\ res.err = ErrNil
     /\ \A S \in TextsOfLen(a.baseLen) :
          LET viaA == Apply(res.bPrime, Apply(a, S).text)
              viaB == Apply(res.aPrime, Apply(b, S).text)
          IN  /\ viaA.err = ErrNil
              /\ viaB.err = ErrNil
              /\ viaA.text = viaB.text

\* Transform has run on two sequences that both insert and delete
C1_Witness ==
  /\ call.fn = "Transform" /\ a.baseLen = b.baseLen /\ a.baseLen = MaxPairLen
  /\ HasVariant(a, "Insert") /\ HasVariant(a, "Delete")
  /\ HasVariant(b, "Insert") /\ HasVariant(b, "Delete")
  /\ a # b

\* C2: Compose correctness. For sequences with a.targetLen = b.baseLen, Compose
\* succeeds and, on every text S of length a.baseLen, applying the composed
\* sequence gives what applying a and then b gives.
C2_ComposeCorrect ==
  (call.fn = "Compose" /\ a.targetLen = b.baseLen)
  => /\ res.err = ErrNil
     /\ \A S \in TextsOfLen(a.baseLen) :
          LET one == Apply(res.seq, S)
              two == Apply(b, Apply(a, S).text)
          IN  /\ one.err = ErrNil
              /\ two.err = ErrNil
              /\ one.text = two.text

\* Compose has run where b deletes part of a two-codepoint insert of a
C2_Witness ==
  /\ call.fn = "Compose" /\ a.targetLen = b.baseLen
  /\ \E i \in 1..Len(a.ops) : IsInsert(a.ops[i]) /\ Len(a.ops[i].Text) = 2
  /\ HasVariant(b, "Delete") /\ HasVariant(b, "Retain")

\* C13: Transform of two sequences whose base lengths differ fails with the
\* length-mismatch error and returns nil for both transformed sequences.
C13_TransformLengthMismatch ==
  (call.fn = "Transform" /\ a.baseLen # b.baseLen)
  => /\ res.err = ErrIncompatibleLengths
     /\ res.aPrime = NilSeq
     /\ res.bPrime = NilSeq

\* Transform has been called on two non-empty sequences of different base
\* lengths
C13_Witness ==
  /\ call.fn = "Transform"
  /\ a.baseLen # b.baseLen
  /\ a.baseLen > 0 /\ b.baseLen > 0

\* C14: Compose of A and B with A.targetLen different from B.baseLen fails
\* with the length-mismatch error and returns nil.
C14_ComposeLengthMismatch ==
  (call.fn = "Compose" /\ a.targetLen # b.baseLen)
  => /\ res.err = ErrIncompatibleLengths
     /\ res.seq = NilSeq

\* Compose has been called on sequences with equal base lengths where the
\* first one's target length is not the second one's base length
C14_Witness ==
  /\ call.fn = "Compose"
  /\ a.targetLen # b.baseLen
  /\ a.baseLen = b.baseLen /\ b.baseLen > 0

RECURSIVE BaseBefore(_, _)
\* the number of base codepoints the operations before the k-th consume
BaseBefore(ops, k) ==
  IF k = 1 THEN 0
  ELSE BaseBefore(ops, k - 1) + (IF ops[k - 1].type = "Insert" THEN 0 ELSE ops[k - 1].N)

\* the text o inserts in front of base position p + 1, <<>> if none
InsAt(o, p) ==
  LET ks == {k \in 1..Len(o.ops) : o.ops[k].type = "Insert" /\ BaseBefore(o.ops, k) = p}
  IN  IF ks = {} THEN <<>> ELSE o.ops[CHOOSE k \in ks : TRUE].Text

\* the base positions o deletes
Deleted(o) ==
  {i \in 1..o.baseLen :
     \E k \in 1..Len(o.ops) :
        /\ o.ops[k].type = "Delete"
        /\ BaseBefore(o.ops, k) < i
        /\ i <= BaseBefore(o.ops, k) + o.ops[k].N}

RECURSIVE InsertedBefore(_, _)
\* the number of codepoints o inserts in front of base positions 1..p
InsertedBefore(o, p) ==
  IF p = 0 THEN 0 ELSE InsertedBefore(o, p - 1) + Len(InsAt(o, p - 1))

\* where the texts inserted at base position p start in the document both
\* sides converge on: after everything inserted earlier by either side and
\* the earlier base codepoints that neither side deletes
MergedOffset(x, y, p) ==
  InsertedBefore(x, p) + InsertedBefore(y, p)
  + Cardinality({i \in 1..p : i \notin Deleted(x) \cup Deleted(y)})

\* the document reached by applying x and then the transformed y'
Converged(x, yPrime, S) == Apply(yPrime, Apply(x, S).text).text

RECURSIVE LexLess(_, _)
\* lexicographic order of texts, codepoint by codepoint
LexLess(s, t) ==
  IF t = <<>> THEN FALSE
  ELSE IF s = <<>> THEN TRUE
  ELSE IF Head(s) # Head(t) THEN Head(s) < Head(t)
  ELSE LexLess(Tail(s), Tail(t))

\* the base positions where x and y both insert, and different texts
TiePositions(x, y) ==
  {p \in 0..x.baseLen :
     InsAt(x, p) # <<>> /\ InsAt(y, p) # <<>> /\ InsAt(x, p) # InsAt(y, p)}

\* C16: where a and b insert different texts at the same position, the
\* converged document holds the lexicographically smaller text immediately
\* followed by the larger one, whichever of the two sequences is the
\* receiver of Transform.
C16_InsertTieBreak ==
  (call.fn = "Transform" /\ res.err = ErrNil)
  => \A p \in TiePositions(a, b) :
       LET x == InsAt(a, p)
           y == InsAt(b, p)
           lo == IF LexLess(x, y) THEN x ELSE y
           hi == IF LexLess(x, y) THEN y ELSE x
           off == MergedOffset(a, b, p)
           swapped == Transform(b, a)
       IN  /\ swapped.err = ErrNil
           /\ \A S \in TextsOfLen(a.baseLen) :
                /\ SubSeq(Converged(a, res.bPrime, S), off + 1, off + Len(x) + Len(y))
                     = lo \o hi
                /\ SubSeq(Converged(b, swapped.bPrime, S), off + 1, off + Len(x) + Len(y))
                     = lo \o hi

\* Transform has succeeded where the receiver inserts the larger text at a
\* position past the start, and the other side the smaller one
C16_Witness ==
  /\ call.fn = "Transform" /\ res.err = ErrNil
  /\ \E p \in TiePositions(a, b) : p > 0 /\ LexLess(InsAt(b, p), InsAt(a, p))

\* the base positions where x and y insert the same text
SamePositions(x, y) ==
  {p \in 0..x.baseLen : InsAt(x, p) # <<>> /\ InsAt(x, p) = InsAt(y, p)}

\* o holds Insert(t) directly followed by a Retain of at least len(t)
HasInsertThenRetain(o, t) ==
  \E k \in 1..(Len(o.ops) - 1) :
     /\ o.ops[k] = Insert(t)
     /\ IsRetain(o.ops[k + 1]) /\ o.ops[k + 1].N >= Len(t)

\* every iteration that meets two equal Inserts appends Insert(t) and
\* Retain(len(t)) to both outputs
EqualInsertsEmitBoth(tr) ==
  \A i \in 1..(Len(tr) - 1) :
     (IsInsert(tr[i].op1) /\ tr[i].op1 = tr[i].op2)
     => LET t == tr[i].op1.Text
            emitted == <<Insert(t), Retain(Len(t))>>
        IN  /\ tr[i + 1].aPrime.ops = tr[i].aPrime.ops \o emitted
            /\ tr[i + 1].bPrime.ops = tr[i].bPrime.ops \o emitted

\* C17: identical concurrent inserts are not deduplicated. Where a and b
\* insert the same text t at the same position, Transform emits Insert(t)
\* followed by Retain(len(t)) into both A' and B', and the converged
\* document holds t twice in a row.
C17_IdenticalInsertsKept ==
  (call.fn = "Transform" /\ res.err = ErrNil)
  => /\ EqualInsertsEmitBoth(TransformStates(TransformStart(a, b)))
     /\ \A p \in SamePositions(a, b) :
          LET t == InsAt(a, p)
              off == MergedOffset(a, b, p)
          IN  /\ HasInsertThenRetain(res.aPrime, t)
              /\ HasInsertThenRetain(res.bPrime, t)
              /\ \A S \in TextsOfLen(a.baseLen) :
                   SubSeq(Converged(a, res.bPrime, S), off + 1, off + 2 * Len(t))
                     = t \o t

\* Transform has succeeded on two sequences that insert the same text after
\* retaining a codepoint
C17_Witness ==
  /\ call.fn = "Transform" /\ res.err = ErrNil
  /\ \E p \in SamePositions(a, b) : p > 0

\* C18: Transform is symmetric. When a.Transform(b) returns (A', B'),
\* b.Transform(a) returns (B', A') with identical operation lists.
C18_TransformSymmetric ==
  (call.fn = "Transform" /\ res.err = ErrNil)
  => LET swapped == Transform(b, a)
     IN  /\ swapped.err = ErrNil
         /\ swapped.aPrime = res.bPrime
         /\ swapped.bPrime = res.aPrime
         /\ swapped.aPrime.ops = res.bPrime.ops
         /\ swapped.bPrime.ops = res.aPrime.ops

\* Transform has succeeded on two sequences that insert different texts at
\* one position, with transformed sequences that differ
C18_Witness ==
  /\ call.fn = "Transform" /\ res.err = ErrNil
  /\ TiePositions(a, b) # {}
  /\ res.aPrime.ops # res.bPrime.ops

\* the base positions o keeps, in ascending order
Survivors(o) ==
  SelectSeq([i \in 1..o.baseLen |-> i], LAMBDA i : i \notin Deleted(o))

\* the base positions that op deletes when it runs after prior, which
\* inserts nothing: op's positions refer to what prior has kept
DeletedAfter(op, prior) == {Survivors(prior)[j] : j \in Deleted(op)}

\* S without the codepoints at the positions in gone
Without(S, gone) ==
  LET kept == SelectSeq([i \in 1..Len(S) |-> i], LAMBDA i : i \notin gone)
  IN  [j \in 1..Len(kept) |-> S[kept[j]]]

\* C19: overlapping concurrent deletes remove text only once. For a and b
\* made of Retain and Delete only, the converged document is S without the
\* codepoints a or b deletes, and A' and B' delete exactly what the other
\* side has not already deleted.
C19_OverlappingDeletes ==
  (/\ call.fn = "Transform" /\ res.err = ErrNil
   /\ ~HasVariant(a, "Insert") /\ ~HasVariant(b, "Insert"))
  => /\ \A S \in TextsOfLen(a.baseLen) :
          /\ Converged(a, res.bPrime, S) = Without(S, Deleted(a) \cup Deleted(b))
          /\ Converged(b, res.aPrime, S) = Without(S, Deleted(a) \cup Deleted(b))
     /\ res.aPrime.baseLen = b.targetLen
     /\ res.bPrime.baseLen = a.targetLen
     /\ DeletedAfter(res.aPrime, b) = Deleted(a) \ Deleted(b)
     /\ DeletedAfter(res.bPrime, a) = Deleted(b) \ Deleted(a)

\* Transform has succeeded on two insert-free sequences whose deletes
\* overlap, one of them deleting more than the other
C19_Witness ==
  /\ call.fn = "Transform" /\ res.err = ErrNil
  /\ ~HasVariant(a, "Insert") /\ ~HasVariant(b, "Insert")
  /\ Deleted(a) \cap Deleted(b) # {}
  /\ Deleted(a) \ Deleted(b) # {}

\* what a side of the loop still has to process: its pending operation and
\* the operations its iterator has not handed out
Pending(op, ops, idx) ==
  (IF op = NilOp THEN <<>> ELSE <<op>>) \o SubSeq(ops, idx + 1, Len(ops))

\* pending with m taken off the count of its first operation, which is
\* dropped when nothing of it is left
Reduced(pending, m) ==
  IF Head(pending).N > m
  THEN <<[Head(pending) EXCEPT !.N = @ - m]>> \o Tail(pending)
  ELSE Tail(pending)

\* out received Delete(m): merged into a trailing Delete, appended otherwise
ReceivedDelete(before, after, m) ==
  after.ops = IF before.ops # <<>> /\ Last(before.ops).type = "Delete"
              THEN [before.ops EXCEPT ![Len(before.ops)] = Delete(@.N + m)]
              ELSE Append(before.ops, Delete(m))

\* an iteration pairing a Delete with a Retain, whichever side deletes
IsDeleteRetainPair(st) ==
  \/ IsDelete(st.op1) /\ IsRetain(st.op2)
  \/ IsRetain(st.op1) /\ IsDelete(st.op2)

\* the effect of every iteration that pairs a Delete with a Retain
DeleteRetainPairing(tr) ==
  \A i \in 1..(Len(tr) - 1) :
     IsDeleteRetainPair(tr[i])
     => LET st == tr[i]
            nx == tr[i + 1]
            m == Min(st.op1.N, st.op2.N)
        IN  /\ IF IsDelete(st.op1)
               THEN ReceivedDelete(st.aPrime, nx.aPrime, m) /\ nx.bPrime = st.bPrime
               ELSE ReceivedDelete(st.bPrime, nx.bPrime, m) /\ nx.aPrime = st.aPrime
            /\ Pending(nx.op1, nx.ops1, nx.idx1)
                 = Reduced(Pending(st.op1, st.ops1, st.idx1), m)
            /\ Pending(nx.op2, nx.ops2, nx.idx2)
                 = Reduced(Pending(st.op2, st.ops2, st.idx2), m)

\* C20: when Transform pairs a Delete(n) with a Retain(m), only the deleting
\* side's output receives Delete(min(n, m)), the retaining side's output
\* receives nothing for the span, and the longer of the two continues with
\* its count reduced by min(n, m).
C20_DeleteRetainPairing ==
  call.fn = "Transform"
  => DeleteRetainPairing(TransformStates(TransformStart(a, b)))

\* Transform has succeeded after pairing a Retain of the receiver with a
\* shorter Delete of the argument
C20_Witness ==
  /\ call.fn = "Transform" /\ res.err = ErrNil
  /\ LET tr == TransformStates(TransformStart(a, b))
     IN  \E i \in 1..(Len(tr) - 1) :
            /\ IsRetain(tr[i].op1) /\ IsDelete(tr[i].op2)
            /\ tr[i].op1.N > tr[i].op2.N

\* the length relations as documented: each transformed sequence starts
\* from the target length of the sequence it was derived from
C21_LengthsAsDocumented ==
  (call.fn = "Transform" /\ res.err = ErrNil)
  => /\ res.aPrime.baseLen = a.targetLen
     /\ res.bPrime.baseLen = b.targetLen
     /\ Compose(a, res.bPrime).err = ErrNil
     /\ res.aPrime.targetLen = Compose(a, res.bPrime).seq.targetLen
     /\ Compose(b, res.aPrime).err = ErrNil
     /\ res.bPrime.targetLen = Compose(b, res.aPrime).seq.targetLen

\* C21 (amended): given (A', B') = Transform(a, b), A' starts from the
\* length b produces and B' from the length a produces; a composes with B'
\* and b with A', and A'.targetLen and B'.targetLen are the target lengths of
\* these compositions.
C21_LengthConsistency ==
  (call.fn = "Transform" /\ res.err = ErrNil)
  => /\ res.aPrime.baseLen = b.targetLen
     /\ res.bPrime.baseLen = a.targetLen
     /\ Compose(a, res.bPrime).err = ErrNil
     /\ Compose(b, res.aPrime).err = ErrNil
     /\ res.aPrime.targetLen = Compose(a, res.bPrime).seq.targetLen
     /\ res.bPrime.targetLen = Compose(b, res.aPrime).seq.targetLen

\* Transform has succeeded on sequences with different target lengths, the
\* argument inserting and the receiver deleting
C21_Witness ==
  /\ call.fn = "Transform" /\ res.err = ErrNil
  /\ a.targetLen # b.targetLen
  /\ HasVariant(b, "Insert") /\ HasVariant(a, "Delete")

\* both application paths of the test case on "abc" give "abcdefghi"
TestInsertsConverge ==
  /\ Apply(res.bPrime, Apply(a, <<97, 98, 99>>).text).text
       = <<97, 98, 99, 100, 101, 102, 103, 104, 105>>
  /\ Apply(res.aPrime, Apply(b, <<97, 98, 99>>).text).text
       = <<97, 98, 99, 100, 101, 102, 103, 104, 105>>

\* the transformed lists as the specification gives them
C23_ListsAsStated ==
  (call.fn = "Transform" /\ a = TestInsertsA /\ b = TestInsertsB)
  => /\ res.err = ErrNil
     /\ res.aPrime.ops = <<Retain(3), Insert(<<100, 101, 102>>)>>
     /\ res.bPrime.ops = <<Retain(3), Retain(3), Insert(<<103, 104, 105>>)>>
     /\ TestInsertsConverge

\* C23 (amended): for A = [Retain(3), Insert("def")] and
\* B = [Retain(3), Insert("ghi")] on "abc", Transform yields
\* A' = [Retain(3), Insert("def"), Retain(3)] and B' = [Retain(6),
\* Insert("ghi")], and both application paths produce "abcdefghi".
C23_TestInserts ==
  (call.fn = "Transform" /\ a = TestInsertsA /\ b = TestInsertsB)
  => /\ res.err = ErrNil
     /\ res.aPrime.ops = <<Retain(3), Insert(<<100, 101, 102>>), Retain(3)>>
     /\ res.bPrime.ops = <<Retain(6), Insert(<<103, 104, 105>>)>>
     /\ TestInsertsConverge

\* Transform has been called with the two sequences of the test case
C23_Witness ==
  /\ call.fn = "Transform" /\ a = TestInsertsA /\ b = TestInsertsB
  /\ res.err = ErrNil

\* where the text x inserts at base position p starts in the converged
\* document: at the merged offset, after the text y inserts there when that
\* text is the smaller one
InsertStart(x, y, p) ==
  MergedOffset(x, y, p)
  + (IF InsAt(y, p) # <<>> /\ LexLess(InsAt(y, p), InsAt(x, p))
     THEN Len(InsAt(y, p)) ELSE 0)

\* doc holds the text x inserts at p as a contiguous run at its place
HoldsInsert(doc, x, y, p) ==
  SubSeq(doc, InsertStart(x, y, p) + 1, InsertStart(x, y, p) + Len(InsAt(x, p)))
    = InsAt(x, p)

\* the number of codepoints o deletes
DeleteTotal(o) == o.baseLen - Cardinality(1..o.baseLen \ Deleted(o))

\* every iteration that has an Insert pending on either side emits into
\* both outputs and pairs no Delete
InsertsHandledFirst(tr) ==
  \A i \in 1..(Len(tr) - 1) :
     (IsInsert(tr[i].op1) \/ IsInsert(tr[i].op2))
     => /\ tr[i + 1].aPrime.targetLen > tr[i].aPrime.targetLen
        /\ tr[i + 1].bPrime.targetLen > tr[i].bPrime.targetLen
        /\ DeleteTotal(tr[i + 1].aPrime) = DeleteTotal(tr[i].aPrime)
        /\ DeleteTotal(tr[i + 1].bPrime) = DeleteTotal(tr[i].bPrime)

\* C30: concurrent deletes never remove concurrently inserted text. For a
\* and b of equal baseLen, Transform succeeds, every Insert text of a and of
\* b is a contiguous run of the converged document, and an iteration with an
\* Insert pending emits it, and a Retain over it on the other side, before
\* any Delete is paired.
C30_InsertsSurviveDeletes ==
  (call.fn = "Transform" /\ a.baseLen = b.baseLen)
  => /\ res.err = ErrNil
     /\ InsertsHandledFirst(TransformStates(TransformStart(a, b)))
     /\ \A S \in TextsOfLen(a.baseLen) :
          LET doc == Converged(a, res.bPrime, S)
          IN  \A p \in 0..a.baseLen :
                 /\ HoldsInsert(doc, a, b, p)
                 /\ HoldsInsert(doc, b, a, p)

\* Transform has run where the receiver inserts in front of a codepoint
\* that the argument deletes
C30_Witness ==
  /\ call.fn = "Transform" /\ res.err = ErrNil
  /\ \E p \in 0..(a.baseLen - 1) : InsAt(a, p) # <<>> /\ (p + 1) \in Deleted(b)

\* how far a side of the loop has come: the operations its iterator has
\* handed out, and one more once it has reported the end
CursorPos(op, idx) == IF op = NilOp THEN idx + 1 ELSE idx

\* from one iteration to the next no cursor goes back and one goes forward
EveryIterationAdvances(tr) ==
  \A i \in 1..(Len(tr) - 1) :
     LET st == tr[i]
         nx == tr[i + 1]
     IN  /\ CursorPos(nx.op1, nx.idx1) >= CursorPos(st.op1, st.idx1)
         /\ CursorPos(nx.op2, nx.idx2) >= CursorPos(st.op2, st.idx2)
         /\ CursorPos(nx.op1, nx.idx1) + CursorPos(nx.op2, nx.idx2)
              > CursorPos(st.op1, st.idx1) + CursorPos(st.op2, st.idx2)

\* both sides have handed out every operation and hold no pending one
BothExhausted(st) ==
  /\ st.op1 = NilOp /\ st.idx1 = Len(st.ops1)
  /\ st.op2 = NilOp /\ st.idx2 = Len(st.ops2)

\* the loop that went through the states tr and gave the result r for the
\* sequences x and y ended within the bound, with a result or the
\* length-mismatch error, and with a result only from an exhausted state
LoopTerminates(x, y, tr, r) ==
  /\ r.err \in {ErrNil, ErrIncompatibleLengths}
  /\ r.iters = Len(tr)
  /\ r.iters <= Len(x.ops) + Len(y.ops) + 1
  /\ EveryIterationAdvances(tr)
  /\ r.err = ErrNil => BothExhausted(Last(tr))

\* C31: termination. For every pair of sequences the loop of Compose and the
\* loop of Transform end with a result or the length-mismatch error after at
\* most len(a.ops) + len(b.ops) + 1 iterations, every iteration that does not
\* return advances a cursor, and a result is returned only when both sides
\* are exhausted.
C31_Termination ==
  /\ (call.fn = "Transform" /\ a.baseLen = b.baseLen)
     => LoopTerminates(a, b, TransformStates(TransformStart(a, b)), res)
  /\ (call.fn = "Compose" /\ a.targetLen = b.baseLen)
     => LoopTerminates(a, b, ComposeStates(ComposeStart(a, b)), res)
  /\ (call.fn \in {"Transform", "Compose"})
     => /\ res.err \in {ErrNil, ErrIncompatibleLengths}
        /\ res.iters <= Len(a.ops) + Len(b.ops) + 1

\* Transform has succeeded in as many iterations as the bound allows, each
\* one advancing a single cursor, on two sequences that are not empty
C31_Witness ==
  /\ call.fn = "Transform" /\ res.err = ErrNil
  /\ a.ops # <<>> /\ b.ops # <<>>
  /\ res.iters = Len(a.ops) + Len(b.ops) + 1

\* the text t without its first n codepoints
AfterFirst(t, n) == [i \in 1..(Len(t) - n) |-> t[n + i]]

\* the effect of every iteration that meets an Insert of the first sequence
\* with a Delete of the second
InsertDeleteAnnihilate(tr) ==
  \A i \in 1..(Len(tr) - 1) :
     (IsInsert(tr[i].op1) /\ IsDelete(tr[i].op2))
     => LET st == tr[i]
            nx == tr[i + 1]
            text == st.op1.Text
            n == st.op2.N
            rest1 == Tail(Pending(st.op1, st.ops1, st.idx1))
            rest2 == Tail(Pending(st.op2, st.ops2, st.idx2))
            now1 == Pending(nx.op1, nx.ops1, nx.idx1)
            now2 == Pending(nx.op2, nx.ops2, nx.idx2)
        IN  /\ nx.result = st.result
            /\ Len(text) = n => now1 = rest1 /\ now2 = rest2
            /\ Len(text) > n
                 => now1 = <<Insert(AfterFirst(text, n))>> \o rest1 /\ now2 = rest2
            /\ Len(text) < n
                 => now1 = rest1 /\ now2 = <<Delete(n - Len(text))>> \o rest2

\* C32: Compose annihilation. When the pending operation of a is Insert(text)
\* and that of b is Delete(n), the result receives nothing; with len(text) = n
\* both sides advance, with len(text) > n a continues with the Insert of the
\* text after its first n codepoints, with len(text) < n b continues with
\* Delete(n - len(text)); composing an Insert with the Delete of its length
\* gives the empty sequence.
C32_ComposeAnnihilation ==
  (call.fn = "Compose" /\ a.targetLen = b.baseLen)
  => /\ InsertDeleteAnnihilate(ComposeStates(ComposeStart(a, b)))
     /\ (Len(a.ops) = 1 /\ IsInsert(a.ops[1]) /\ b.ops = <<Delete(a.targetLen)>>)
        => res.err = ErrNil /\ res.seq = NewOperationSeq

\* Compose has succeeded where a Delete of b removed the first codepoint of
\* a longer Insert of a
C32_Witness ==
  /\ call.fn = "Compose" /\ res.err = ErrNil
  /\ LET tr == ComposeStates(ComposeStart(a, b))
     IN  \E i \in 1..(Len(tr) - 1) :
            /\ IsInsert(tr[i].op1) /\ IsDelete(tr[i].op2)
            /\ Len(tr[i].op1.Text) > tr[i].op2.N

\* C34: structural convergence. For a and b of equal baseLen with
\* (aPrime, bPrime) = Transform(a, b), Compose(a, bPrime) and
\* Compose(b, aPrime) both succeed and return identical operation lists.
C34_StructuralConvergence ==
  (call.fn = "Transform" /\ a.baseLen = b.baseLen)
  => /\ res.err = ErrNil
     /\ Compose(a, res.bPrime).err = ErrNil
     /\ Compose(b, res.aPrime).err = ErrNil
     /\ Compose(a, res.bPrime).seq.ops = Compose(b, res.aPrime).seq.ops

\* Transform has succeeded on two different sequences and both compositions
\* hold an Insert in front of a Delete and a Retain
C34_Witness ==
  /\ call.fn = "Transform" /\ a.baseLen = b.baseLen /\ a # b
  /\ res.err = ErrNil
  /\ LET viaA == Compose(a, res.bPrime).seq
     IN  /\ viaA = Compose(b, res.aPrime).seq
         /\ HasVariant(viaA, "Retain")
         /\ \E i \in 1..(Len(viaA.ops) - 1) :
               IsInsert(viaA.ops[i]) /\ IsDelete(viaA.ops[i + 1])

\* C35: Compose preserves end lengths. Whenever Compose(a, b) succeeds with
\* result c, c.baseLen = a.baseLen and c.targetLen = b.targetLen, no two
\* neighbours of c are of the same variant and no Insert of c comes directly
\* after a Delete.
C35_ComposeEndLengths ==
  (call.fn = "Compose" /\ res.err = ErrNil)
  => /\ res.seq.baseLen = a.baseLen
     /\ res.seq.targetLen = b.targetLen
     /\ NoAdjacentSameVariant(res.seq)
     /\ CanonicalOrder(res.seq)

\* Compose has succeeded on sequences that both change the length, where an
\* Insert of b arrives after a Delete of a
C35_Witness ==
  /\ call.fn = "Compose" /\ res.err = ErrNil
  /\ a.baseLen # a.targetLen /\ b.baseLen # b.targetLen
  /\ a.baseLen # b.targetLen
  /\ IsDelete(Last(a.ops)) /\ IsInsert(Last(b.ops))
  /\ \E i \in 1..(Len(res.seq.ops) - 1) :
        IsInsert(res.seq.ops[i]) /\ IsDelete(res.seq.ops[i + 1])

\* the sequence that retains a whole text of n codepoints: the empty
\* sequence when n = 0
RetainAll(n) == SeqRetain(NewOperationSeq, n)

\* C39: transforming against a no-op is neutral. For b = Retain(a.baseLen),
\* the empty sequence when a.baseLen = 0, Transform(a, b) succeeds, aPrime has
\* the operation list of a, and bPrime is a no-op with baseLen = a.targetLen.
C39_TransformAgainstNoop ==
  (call.fn = "Transform" /\ b = RetainAll(a.baseLen))
  => /\ res.err = ErrNil
     /\ res.aPrime.ops = a.ops
     /\ IsNoop(res.bPrime)
     /\ res.bPrime.baseLen = a.targetLen

\* Transform has run against Retain(2) on a sequence that retains, inserts
\* and deletes
C39_Witness ==
  /\ call.fn = "Transform" /\ b = RetainAll(a.baseLen) /\ b.ops # <<>>
  /\ HasVariant(a, "Retain") /\ HasVariant(a, "Insert") /\ HasVariant(a, "Delete")
  /\ res.bPrime.ops = <<Retain(a.targetLen)>>

\* C40: identity laws of Compose. Composing a sequence with the Retain of its
\* whole target text, and composing the Retain of its whole base text with
\* it, both succeed and return a sequence with its operation list, baseLen
\* and targetLen; the empty sequence stands for Retain(0).
C40_ComposeIdentity ==
  /\ (call.fn = "Compose" /\ b = RetainAll(a.targetLen))
     => res.err = ErrNil /\ res.seq = a
  /\ (call.fn = "Compose" /\ a = RetainAll(b.baseLen))
     => res.err = ErrNil /\ res.seq = b

\* Compose has run on a sequence that retains, inserts and deletes, with
\* the Retain of its target text as the argument
C40_Witness ==
  /\ call.fn = "Compose" /\ b = RetainAll(a.targetLen) /\ b.ops # <<>>
  /\ HasVariant(a, "Retain") /\ HasVariant(a, "Insert") /\ HasVariant(a, "Delete")
  /\ res.err = ErrNil /\ res.seq.ops = a.ops

(***************************************************************************)
(* SpecSingle: one built sequence handed to Apply and Invert.              *)
(***************************************************************************)
InitSingle ==
  /\ a \in BuiltSeqs
  /\ b = NewOperationSeq
  /\ call = NoCall
  /\ res = NoRes

\* the texts a caller may hand to a sequence: any length near its baseLen
InputTexts(o) ==
  UNION {TextsOfLen(k) : k \in {x \in 0..(o.baseLen + MaxSkew) : x >= o.baseLen - MaxSkew}}

\* text, err := a.Apply(s)
DoApply(s) ==
  /\ call' = [fn |-> "Apply", text |-> s]
  /\ res' = Apply(a, s)
  /\ UNCHANGED <<a, b>>

\* seq := a.Invert(s), with the rune slice of s given capacity cap
DoInvert(s, cap) ==
  /\ call' = [fn |-> "Invert", text |-> s]
  /\ res' = Invert(a, s, cap)
  /\ UNCHANGED <<a, b>>

\* Apply and Invert are pure: a call's result does not depend on the calls
\* before it, so each behaviour makes one call on its sequence.
NextSingle ==
  \/ call = NoCall /\ \E s \in InputTexts(a) : DoApply(s)
  \/ call = NoCall /\ \E s \in InputTexts(a) :
        \E slack \in 0..MaxCapSlack : DoInvert(s, Len(s) + slack)

SpecSingle == InitSingle /\ [][NextSingle]_vars

\* C3: Invert round trip. For a text S of length a.baseLen, applying a to S
\* and then a.Invert(S) to the result succeeds and returns S.
C3_InvertRoundTrip ==
  (call.fn = "Invert" /\ Len(call.text) = a.baseLen)
  => /\ ~res.panic
     /\ LET there == Apply(a, call.text)
            back == Apply(res.seq, there.text)
        IN  /\ there.err = ErrNil
            /\ back.err = ErrNil
            /\ back.text = call.text

\* Invert has run on a sequence that retains, deletes and inserts, with a text
\* of two different codepoints
C3_Witness ==
  /\ call.fn = "Invert" /\ Len(call.text) = a.baseLen
  /\ HasVariant(a, "Retain") /\ HasVariant(a, "Delete") /\ HasVariant(a, "Insert")
  /\ \E i, j \in 1..Len(call.text) : call.text[i] # call.text[j]

\* C4: for a text S of length a.baseLen, the inverse a.Invert(S) has
\* baseLen = a.targetLen and targetLen = a.baseLen.
C4_InvertLengths ==
  (call.fn = "Invert" /\ Len(call.text) = a.baseLen)
  => /\ ~res.panic
     /\ res.seq.baseLen = a.targetLen
     /\ res.seq.targetLen = a.baseLen

\* Invert has run on a sequence whose baseLen and targetLen differ and that
\* inserts a 2-byte codepoint
C4_Witness ==
  /\ call.fn = "Invert" /\ Len(call.text) = a.baseLen
  /\ a.baseLen # a.targetLen
  /\ \E i \in 1..Len(a.ops) : IsInsert(a.ops[i]) /\ 233 \in {a.ops[i].Text[j] : j \in 1..Len(a.ops[i].Text)}
  /\ HasVariant(a, "Delete")

\* C10: Apply on a text whose length differs from baseLen fails with the
\* length-mismatch error and returns the empty string.
C10_ApplyLengthMismatch ==
  (call.fn = "Apply" /\ Len(call.text) # a.baseLen)
  => /\ res.err = ErrIncompatibleLengths
     /\ res.text = <<>>

\* Apply has run on a too short text and on a sequence that would have
\* produced output from it
C10_Witness ==
  /\ call.fn = "Apply" /\ Len(call.text) < a.baseLen /\ Len(call.text) > 0
  /\ HasVariant(a, "Insert") /\ HasVariant(a, "Retain")

\* C11: for a text S of length a.baseLen, the text a.Apply(S) returns has
\* exactly a.targetLen codepoints.
C11_ApplyTargetLen ==
  (call.fn = "Apply" /\ Len(call.text) = a.baseLen)
  => /\ res.err = ErrNil
     /\ Len(res.text) = a.targetLen

\* Apply has run on a sequence that retains two codepoints at once, deletes
\* and inserts
C11_Witness ==
  /\ call.fn = "Apply" /\ Len(call.text) = a.baseLen
  /\ \E i \in 1..Len(a.ops) : IsRetain(a.ops[i]) /\ a.ops[i].N >= 2
  /\ HasVariant(a, "Delete") /\ HasVariant(a, "Insert")

\* the reference cursor walk: what each operation appends and where it
\* leaves the read cursor
RECURSIVE CursorWalk(_, _, _)
CursorWalk(ops, S, cursor) ==
  IF ops = <<>> THEN <<>>
  ELSE LET op == Head(ops)
       IN  CASE op.type = "Retain" ->
                  SubSeq(S, cursor + 1, cursor + op.N) \o CursorWalk(Tail(ops), S, cursor + op.N)
             [] op.type = "Delete" -> CursorWalk(Tail(ops), S, cursor + op.N)
             [] op.type = "Insert" -> op.Text \o CursorWalk(Tail(ops), S, cursor)

\* C12: a successful Apply returns the result of the reference cursor walk:
\* Retain(n) appends the next n input codepoints and advances the cursor,
\* Delete(n) only advances it, Insert(text) appends text and leaves it.
C12_ApplyIsCursorWalk ==
  (call.fn = "Apply" /\ res.err = ErrNil)
  => res.text = CursorWalk(a.ops, call.text, 0)

\* Apply has succeeded on a text of two different codepoints with a sequence
\* that retains after a Delete and inserts
C12_Witness ==
  /\ call.fn = "Apply" /\ res.err = ErrNil
  /\ \E i \in 1..(Len(a.ops) - 1) : IsDelete(a.ops[i]) /\ IsRetain(a.ops[i + 1])
  /\ HasVariant(a, "Insert")
  /\ \E i, j \in 1..Len(call.text) : call.text[i] # call.text[j]

\* r is the length-mismatch failure Apply returns
IsLengthMismatchFailure(r) ==
  /\ "err" \in DOMAIN r
  /\ r.err = ErrIncompatibleLengths

\* C29: Invert on a text whose length differs from baseLen fails with the
\* length-mismatch failure of Apply and returns no inverse sequence.
C29_InvertLengthMismatch ==
  (call.fn = "Invert" /\ Len(call.text) # a.baseLen)
  => /\ IsLengthMismatchFailure(res)
     /\ "seq" \in DOMAIN res => res.seq = NilSeq

\* C36: Invert is an involution. For a text S of length a.baseLen, inverting
\* a.Invert(S) against the text a.Apply(S) gives a sequence with the
\* operation list of a.
C36_InvertInvolution ==
  (call.fn = "Invert" /\ Len(call.text) = a.baseLen)
  => /\ ~res.panic
     /\ LET there == Apply(a, call.text)
        IN  /\ there.err = ErrNil
            /\ \A slack \in 0..MaxCapSlack :
                  LET again == Invert(res.seq, there.text, Len(there.text) + slack)
                  IN  ~again.panic /\ again.seq.ops = a.ops

\* Invert has run on a sequence that retains, then inserts two codepoints in
\* front of a Delete, so that the inverse puts its Insert before its Delete
C36_Witness ==
  /\ call.fn = "Invert" /\ Len(call.text) = a.baseLen /\ ~res.panic
  /\ Len(a.ops) = 3
  /\ IsRetain(a.ops[1]) /\ IsInsert(a.ops[2]) /\ IsDelete(a.ops[3])
  /\ Len(a.ops[2].Text) = 2
  /\ Len(res.seq.ops) = 3 /\ IsInsert(res.seq.ops[2]) /\ IsDelete(res.seq.ops[3])
  /\ res.seq.ops[2].Text # a.ops[2].Text

(***************************************************************************)
(* SpecWire: one built sequence is encoded and the encoding is decoded     *)
(* into the sequence b.                                                    *)
(***************************************************************************)
\* wire, err := a.MarshalJSON()
DoMarshal ==
  /\ call' = [fn |-> "MarshalJSON"]
  /\ res' = MarshalJSON(a)
  /\ UNCHANGED <<a, b>>

\* err := b.UnmarshalJSON(data)
DoUnmarshalB(data) ==
  /\ call' = [fn |-> "UnmarshalJSON", data |-> data]
  /\ b' = UnmarshalJSON(b, data).seq
  /\ res' = [err |-> UnmarshalJSON(b, data).err]
  /\ UNCHANGED a

\* wire, err := (*OperationSeq)(nil).MarshalJSON()
DoMarshalNil ==
  /\ call' = [fn |-> "MarshalJSON(nil)"]
  /\ res' = MarshalJSON(NilSeq)
  /\ UNCHANGED <<a, b>>

NextWire ==
  \/ call = NoCall /\ DoMarshal
  \/ call = NoCall /\ DoMarshalNil
  \/ call.fn = "MarshalJSON" /\ DoUnmarshalB(JsonArray(res.wire))

SpecWire == InitSingle /\ [][NextWire]_vars

\* C5: wire round trip. Decoding the encoding of a built sequence a succeeds
\* and yields a sequence with the operation list, baseLen and targetLen of a.
C5_WireRoundTrip ==
  (call.fn = "UnmarshalJSON" /\ call.data = JsonArray(MarshalJSON(a).wire))
  => /\ res.err = ErrNil
     /\ b.ops = a.ops
     /\ b.baseLen = a.baseLen
     /\ b.targetLen = a.targetLen

\* the encoding of a sequence with an Insert placed before a Delete, and a
\* Retain, has been decoded
C5_Witness ==
  /\ call.fn = "UnmarshalJSON" /\ call.data = JsonArray(MarshalJSON(a).wire)
  /\ \E i \in 1..(Len(a.ops) - 1) : IsInsert(a.ops[i]) /\ IsDelete(a.ops[i + 1])
  /\ HasVariant(a, "Retain")

\* item is the wire element of op: n for Retain(n), -n for Delete(n), the
\* text for Insert(text)
EncodesAs(op, item) ==
  CASE op.type = "Retain" -> item = [kind |-> "number", v |-> op.N]
    [] op.type = "Delete" -> item = [kind |-> "number", v |-> 0 - op.N]
    [] op.type = "Insert" -> item = [kind |-> "string", s |-> op.Text]

\* C27: encode writes one element per operation, in list order: the number
\* n for Retain(n), -n for Delete(n) and the string text for Insert(text);
\* an empty sequence and a nil one encode to the empty array.
C27_EncodeMapping ==
  /\ call.fn = "MarshalJSON"
     => /\ res.err = ErrNil
        /\ Len(res.wire) = Len(a.ops)
        /\ \A i \in 1..Len(a.ops) : EncodesAs(a.ops[i], res.wire[i])
        /\ a.ops = <<>> => res.wire = <<>>
  /\ call.fn = "MarshalJSON(nil)"
     => /\ res.err = ErrNil
        /\ res.wire = <<>>

\* a sequence holding a Retain, an Insert and a Delete has been encoded
C27_Witness ==
  /\ call.fn = "MarshalJSON"
  /\ HasVariant(a, "Retain") /\ HasVariant(a, "Insert") /\ HasVariant(a, "Delete")
  /\ Len(res.wire) = 3

(***************************************************************************)
(* Spec: a session.  The local sequence a is built call by call or decoded *)
(* from the wire into a fresh receiver; b is the sequence of a peer.  Both *)
(* are handed to Apply, Invert, Compose, Transform and MarshalJSON.        *)
(***************************************************************************)
WireItems ==
  {JNumber(v) : v \in (0 - MaxCount)..MaxCount}
    \cup {JString(t) : t \in TextsUpTo(MaxInsLen)}
    \cup {JNull, JBool, JArray, JObject}

RECURSIVE WiresOfLen(_)
\* the arrays of k wire items
WiresOfLen(k) ==
  IF k = 0 THEN {<<>>}
  ELSE {Append(raw, item) : raw \in WiresOfLen(k - 1), item \in WireItems}

WireInputs ==
  {JsonRejected} \cup {JsonArray(raw) : raw \in UNION {WiresOfLen(k) : k \in 0..MaxWireLen}}

Init ==
  /\ a = NewOperationSeq
  /\ b \in Built(MaxFullLen)
  /\ call = [fn |-> "NewOperationSeq"]
  /\ res = NoRes

\* err := a.UnmarshalJSON(data)
DoUnmarshalA(data) ==
  /\ call' = [fn |-> "UnmarshalJSON", data |-> data]
  /\ a' = UnmarshalJSON(a, data).seq
  /\ res' = [err |-> UnmarshalJSON(a, data).err]
  /\ UNCHANGED b

Next ==
  \/ \E n \in 0..MaxCount : CallRetain(n, MaxFullLen)
  \/ \E n \in 0..MaxCount : CallDelete(n, MaxFullLen)
  \/ \E t \in TextsUpTo(MaxInsLen) : CallInsert(t, MaxFullLen)
  \/ call.fn = "NewOperationSeq" /\ \E data \in WireInputs : DoUnmarshalA(data)
  \/ DoMarshal
  \/ DoTransform
  \/ DoCompose
  \/ Fits(a, MaxFullLen) /\ \E s \in InputTexts(a) : DoApply(s)
  \/ Fits(a, MaxFullLen) /\ \E s \in InputTexts(a) :
        \E slack \in 0..MaxCapSlack : DoInvert(s, Len(s) + slack)

Spec == Init /\ [][Next]_vars

NoEmptyOps(o) ==
  \A i \in 1..Len(o.ops) :
    IF IsInsert(o.ops[i]) THEN o.ops[i].Text # <<>> ELSE o.ops[i].N > 0

\* the sequences the last call returned
Returned ==
  CASE call.fn = "Transform" /\ res.err = ErrNil -> {res.aPrime, res.bPrime}
    [] call.fn = "Compose" /\ res.err = ErrNil -> {res.seq}
    [] call.fn = "Invert" -> {res.seq}
    [] OTHER -> {}

\* a step that issues Retain(0), Delete(0) or Insert("") leaves a unchanged
ZeroCallChangesNothing ==
  (\/ call'.fn \in {"Retain", "Delete"} /\ call'.n = 0
   \/ call'.fn = "Insert" /\ call'.text = <<>>)
  => a' = a

\* C9: zero-length elements are never materialized. Retain(0), Delete(0) and
\* Insert("") leave the sequence unchanged, and no sequence built, decoded or
\* returned by Compose, Transform or Invert holds a Retain or Delete of count
\* 0 or an Insert of empty text.
C9_NoZeroLength ==
  /\ [](NoEmptyOps(a) /\ NoEmptyOps(b) /\ \A o \in Returned : NoEmptyOps(o))
  /\ [][ZeroCallChangesNothing]_vars

\* Retain(0) was just issued on a sequence that does not end in a Retain
C9_Witness ==
  /\ call.fn = "Retain" /\ call.n = 0
  /\ a.ops # <<>> /\ ~IsRetain(Last(a.ops))

\* C15: Apply, Invert, Compose and Transform leave the sequences they are
\* given as they were, whether they succeed or fail.
C15_InputsNotMutated ==
  [][call'.fn \in {"Apply", "Invert", "Compose", "Transform"}
     => (a' = a /\ b' = b)]_vars

\* Compose has succeeded on two non-empty sequences and returned a sequence
\* that is neither of them
C15_Witness ==
  /\ call.fn = "Compose" /\ res.err = ErrNil
  /\ a.ops # <<>> /\ b.ops # <<>>
  /\ res.seq # a /\ res.seq # b

(***************************************************************************)
(* SpecDecode: a wire array is decoded into the receiver b, which may hold *)
(* a sequence already, and the decoded sequence is encoded again.          *)
(***************************************************************************)
\* the wire [1,-1,"abc"] of the README
ReadmeWire == <<JNumber(1), JNumber(0 - 1), JString(<<97, 98, 99>>)>>

\* the sequence the README builds: Retain(1), Delete(1), Insert("abc")
ReadmeBuilt == SeqInsert(SeqDelete(SeqRetain(NewOperationSeq, 1), 1), <<97, 98, 99>>)

DecodeInputs == WireInputs \cup {JsonArray(ReadmeWire)}

InitDecode ==
  /\ a = NewOperationSeq
  /\ b \in Built(MaxFullLen)
  /\ call = NoCall
  /\ res = NoRes

\* wire, err := b.MarshalJSON()
DoMarshalB ==
  /\ call' = [fn |-> "MarshalJSON", decoded |-> call.data]
  /\ res' = MarshalJSON(b)
  /\ UNCHANGED <<a, b>>

NextDecode ==
  \/ call = NoCall /\ \E data \in DecodeInputs : DoUnmarshalB(data)
  \/ call.fn = "UnmarshalJSON" /\ res.err = ErrNil /\ DoMarshalB

SpecDecode == InitDecode /\ [][NextDecode]_vars

\* C22: decoding [1,-1,"abc"] yields [Retain(1), Delete(1), Insert("abc")],
\* encoding the decoded sequence yields [1,-1,"abc"] again, and the sequence
\* built by Retain(1), Delete(1), Insert("abc") encodes to [1,-1,"abc"].
C22_ReadmeWireOrder ==
  /\ (call.fn = "UnmarshalJSON" /\ call.data = JsonArray(ReadmeWire))
     => /\ res.err = ErrNil
        /\ b.ops = <<Retain(1), Delete(1), Insert(<<97, 98, 99>>)>>
  /\ (call.fn = "MarshalJSON" /\ call.decoded = JsonArray(ReadmeWire))
     => res.wire = ReadmeWire
  /\ (call.fn = "MarshalJSON" /\ b = ReadmeBuilt)
     => res.wire = ReadmeWire

\* the positions of the items of raw that are neither number nor string
OtherItems(raw) == {k \in 1..Len(raw) : raw[k].kind \notin {"number", "string"}}

\* the error text that names the Go type of a null, boolean, array or object
InvalidElementError ==
  [null |-> "invalid operation type: <nil>",
   bool |-> "invalid operation type: bool",
   array |-> "invalid operation type: []interface {}",
   object |-> "invalid operation type: map[string]interface {}"]

\* C25: decoding an array that holds an element that is neither a number
\* nor a string fails with the invalid-element error naming the type of the
\* first such element, wherever in the array it is.
C25_InvalidElement ==
  (/\ call.fn = "UnmarshalJSON"
   /\ call.data.json = "array"
   /\ OtherItems(call.data.raw) # {})
  => LET raw == call.data.raw
         first == CHOOSE k \in OtherItems(raw) : \A j \in OtherItems(raw) : k <= j
     IN  res.err = InvalidElementError[raw[first].kind]

\* an array with a number followed by an object has been decoded
C25_Witness ==
  /\ call.fn = "UnmarshalJSON"
  /\ call.data.json = "array"
  /\ Len(call.data.raw) = 2
  /\ call.data.raw[1].kind = "number" /\ call.data.raw[1].v # 0
  /\ call.data.raw[2].kind = "object"

RECURSIVE Replay(_)
\* the sequence built by issuing, in order, Insert for each string, Retain
\* for each non-negative number and Delete(-v) for each negative number v
Replay(raw) ==
  IF raw = <<>> THEN NewOperationSeq
  ELSE LET before == Replay(SubSeq(raw, 1, Len(raw) - 1))
           item == Last(raw)
       IN  IF item.kind = "string" THEN SeqInsert(before, item.s)
           ELSE IF item.v >= 0 THEN SeqRetain(before, item.v)
           ELSE SeqDelete(before, 0 - item.v)

\* C26: decode canonicalizes. For every wire array of strings and numbers,
\* whatever the receiver held, the decoded sequence is the sequence built by
\* issuing Insert for each string, Retain for each non-negative number and
\* Delete(-v) for each negative number in order, and it satisfies the
\* merge, canonical-order and length-counter invariants.
C26_DecodeCanonicalizes ==
  (/\ call.fn = "UnmarshalJSON"
   /\ call.data.json = "array"
   /\ OtherItems(call.data.raw) = {})
  => /\ res.err = ErrNil
     /\ b = Replay(call.data.raw)
     /\ NoAdjacentSameVariant(b)
     /\ CanonicalOrder(b)
     /\ LengthCounters(b)
     /\ NoEmptyOps(b)

\* an array with a non-empty string right after a negative number has been
\* decoded
C26_Witness ==
  /\ call.fn = "UnmarshalJSON"
  /\ call.data.json = "array"
  /\ Len(call.data.raw) = 2
  /\ call.data.raw[1].kind = "number" /\ call.data.raw[1].v < 0
  /\ call.data.raw[2].kind = "string" /\ call.data.raw[2].s # <<>>
  /\ b.ops = <<Insert(call.data.raw[2].s), Delete(0 - call.data.raw[1].v)>>

\* C37: a failed decode leaves the receiver untouched. When UnmarshalJSON
\* returns an error, for malformed JSON or an invalid element anywhere in
\* the array, the receiver holds the operation list, baseLen and targetLen
\* it held before the call.
C37_FailedDecodeKeepsReceiver ==
  [][(call'.fn = "UnmarshalJSON" /\ res'.err # ErrNil) => b' = b]_vars

(***************************************************************************)
(* SpecTriple: a sequence a concurrent with two successive sequences, b    *)
(* and then b2.  The caller either composes b with b2 and transforms a     *)
(* against the composition, or transforms a against b and what comes out   *)
(* against b2.                                                             *)
(***************************************************************************)
RECURSIVE CallsWithin(_)
\* the sequences the builder reaches in at most k unit calls
CallsWithin(k) ==
  IF k = 0 THEN {NewOperationSeq}
  ELSE LET prev == CallsWithin(k - 1)
       IN  prev \cup UNION {UnitCalls(o) : o \in prev}

TripleInputs == CallsWithin(MaxTripleCalls)

InitTriple ==
  /\ a \in TripleInputs
  /\ b \in TripleInputs
  /\ a.baseLen = b.baseLen
  /\ call = NoCall
  /\ res = NoRes

\* composed, _ := b.Compose(b2); direct, _, _ := a.Transform(composed)
\* first, _, _ := a.Transform(b); second, _, _ := first.Transform(b2)
DoTransformOver(b2) ==
  /\ b.targetLen = b2.baseLen
  /\ call' = [fn |-> "TransformOver", b2 |-> b2]
  /\ res' = LET composed == Compose(b, b2)
                first == Transform(a, b)
            IN  [composed |-> composed,
                 direct |-> Transform(a, composed.seq),
                 first |-> first,
                 second |-> Transform(first.aPrime, b2)]
  /\ UNCHANGED <<a, b>>

NextTriple == call = NoCall /\ \E b2 \in TripleInputs : DoTransformOver(b2)

SpecTriple == InitTriple /\ [][NextTriple]_vars

\* the three calls of both routes have succeeded
RoutesSucceed ==
  /\ res.composed.err = ErrNil /\ res.direct.err = ErrNil
  /\ res.first.err = ErrNil /\ res.second.err = ErrNil

\* on every text S, a transformed against the composition and a transformed
\* step by step give the same text after b and b2
RoutesAgree ==
  \A S \in TextsOfLen(a.baseLen) :
     LET after == Apply(call.b2, Apply(b, S).text).text
     IN  Apply(res.direct.aPrime, after) = Apply(res.second.aPrime, after)

\* the statement without a condition on the inserts of the three sequences
C33_AllTriples ==
  call.fn = "TransformOver" => RoutesSucceed /\ RoutesAgree

\* the base positions where x and y both insert
SharedInsertPositions(x, y) ==
  {p \in 0..x.baseLen : InsAt(x, p) # <<>> /\ InsAt(y, p) # <<>>}

\* in none of the three Transform calls do Inserts of the two sides meet
NoInsertsMeet ==
  /\ SharedInsertPositions(a, b) = {}
  /\ SharedInsertPositions(res.first.aPrime, call.b2) = {}
  /\ SharedInsertPositions(a, res.composed.seq) = {}

\* nothing makes the place of an Insert of a among the text b and b2 insert
\* depend on the route: only one side inserts, or b and b2 delete nothing
\* and no Inserts meet
InsertOrderSettled ==
  \/ ~HasVariant(a, "Insert")
  \/ ~HasVariant(b, "Insert") /\ ~HasVariant(call.b2, "Insert")
  \/ /\ ~HasVariant(b, "Delete") /\ ~HasVariant(call.b2, "Delete")
     /\ NoInsertsMeet

\* C33: transforming a against Compose(b, b2) and transforming a against b
\* and the result against b2 both succeed, and the two results give the same
\* text on b2(b(S)) when a contains no Insert, or b and b2 contain no Insert,
\* or b and b2 contain no Delete and no Insert of a meets an Insert of the
\* other side at the same position in any of the three Transform calls.
C33_TransformOverCompose ==
  call.fn = "TransformOver"
  => /\ RoutesSucceed
     /\ InsertOrderSettled => RoutesAgree

\* both routes have run where a, b and b2 all insert, at positions that
\* never meet, and a also deletes
C33_Witness ==
  /\ call.fn = "TransformOver"
  /\ HasVariant(a, "Insert") /\ HasVariant(a, "Delete")
  /\ HasVariant(b, "Insert") /\ HasVariant(call.b2, "Insert")
  /\ ~HasVariant(b, "Delete") /\ ~HasVariant(call.b2, "Delete")
  /\ NoInsertsMeet
  /\ RoutesAgree

(***************************************************************************)
(* SpecRaw: one sequence under construction, with the list of the builder  *)
(* calls made on it so far, each call written as the operation it asks for.*)
(***************************************************************************)
InitRaw ==
  /\ a = NewOperationSeq
  /\ b = NewOperationSeq
  /\ call = [fn |-> "NewOperationSeq"]
  /\ res = [calls |-> <<>>]

\* a.Retain(n)
RawRetain(n) ==
  /\ Len(res.calls) < MaxRawCalls
  /\ Fits(SeqRetain(a, n), MaxLen)
  /\ a' = SeqRetain(a, n)
  /\ call' = [fn |-> "Retain", n |-> n]
  /\ res' = [calls |-> Append(res.calls, Retain(n))]
  /\ UNCHANGED b

\* a.Delete(n)
RawDelete(n) ==
  /\ Len(res.calls) < MaxRawCalls
  /\ Fits(SeqDelete(a, n), MaxLen)
  /\ a' = SeqDelete(a, n)
  /\ call' = [fn |-> "Delete", n |-> n]
  /\ res' = [calls |-> Append(res.calls, Delete(n))]
  /\ UNCHANGED b

\* a.Insert(t)
RawInsert(t) ==
  /\ Len(res.calls) < MaxRawCalls
  /\ Fits(SeqInsert(a, t), MaxLen)
  /\ a' = SeqInsert(a, t)
  /\ call' = [fn |-> "Insert", text |-> t]
  /\ res' = [calls |-> Append(res.calls, Insert(t))]
  /\ UNCHANGED b

NextRaw ==
  \/ \E n \in 0..MaxCount : RawRetain(n)
  \/ \E n \in 0..MaxCount : RawDelete(n)
  \/ \E t \in TextsUpTo(MaxInsLen) : RawInsert(t)

SpecRaw == InitRaw /\ [][NextRaw]_vars

\* C38: normalization preserves meaning. On every text S of length
\* a.baseLen, Apply of the built sequence succeeds and returns what walking
\* the list of the calls made, one call at a time, returns: Retain(n) copies n
\* codepoints, Delete(n) skips n, Insert(t) emits t.
C38_NormalizationPreservesMeaning ==
  \A S \in TextsOfLen(a.baseLen) :
     Apply(a, S) = [text |-> CursorWalk(res.calls, S, 0), err |-> ErrNil]

\* a Delete followed by two Insert calls has been built into one Insert of
\* both texts in front of the Delete
C38_Witness ==
  /\ Len(res.calls) = 3
  /\ IsDelete(res.calls[1]) /\ res.calls[1].N > 0
  /\ IsInsert(res.calls[2]) /\ res.calls[2].Text # <<>>
  /\ IsInsert(res.calls[3]) /\ res.calls[3].Text # <<>>
  /\ res.calls[2].Text # res.calls[3].Text
  /\ a.ops = <<Insert(res.calls[2].Text \o res.calls[3].Text), res.calls[1]>>

====
